---- MODULE Spec2Model ----
(***************************************************************************)
(* Jarvis: a chat assistant that mediates between a persisted transcript,  *)
(* a completion service and calendar / task tool handlers.                 *)
(*                                                                         *)
(* Python values are modelled as records so that values of different kinds *)
(* can be compared: None is [none |-> TRUE], a string s is [str |-> s], a  *)
(* user text is its run-length shape [ws, nw] (whitespace characters and   *)
(* other characters), error texts are sequences of string tokens.          *)
(***************************************************************************)
EXTENDS Integers, Sequences, FiniteSets, TLC

(* ------------------------------ bounds -------------------------------- *)
MaxTurns == 2
MaxWs == 1
MaxOver == 1
MaxToolCalls == 2
MaxToolRuns == 2
MaxThreads == 2
MaxLogCalls == 3
MaxTasks == 2
MaxAppends == 3
MaxRequests == 2
MaxWrites == 3

(* ------------------------- program constants -------------------------- *)
MAX_MESSAGE_LENGTH == 400
max_tool_iterations == 3
DATE_CONFIDENCE_THRESHOLD == 98
LATE_HOUR_THRESHOLD == 21
LocalOffset == 2

(* --------------------------- python values ---------------------------- *)
None == [none |-> TRUE]
Str(s) == [str |-> s]
Truthy_unless_none(v) == v # None
Truthy(v) == v # None /\ v # Str("") /\ v # [int |-> 0]
Get(d, k) == IF k \in DOMAIN d THEN d[k] ELSE None
Contains(text, token) == \E i \in 1..Len(text) : text[i] = token
EmptyDict == [k \in {} |-> None]

SYSTEM_PROMPT == [prompt |-> "You are Jarvis"]
SessionIds == {"default", "session1"}

(* A user text with ws whitespace characters and nw other characters: the *)
(* blank texts, and the texts of the maximum length and just above it.    *)
TextLen(m) == m.ws + m.nw
Strip(m) == [ws |-> 0, nw |-> m.nw]
UserTexts ==
    UNION { { [ws |-> w, nw |-> n] :
                n \in {0} \cup ((MAX_MESSAGE_LENGTH - w)
                                ..(MAX_MESSAGE_LENGTH - w + MaxOver)) } :
            w \in 0..MaxWs }

(* ------------------------ ConversationStorage ------------------------- *)
(* The document is the list data["conversations"]; a session is a record  *)
(* [session_id, messages].                                                *)
SessionIndex(data, sid) ==
    IF \E i \in 1..Len(data) : data[i].session_id = sid
    THEN CHOOSE i \in 1..Len(data) :
            /\ data[i].session_id = sid
            /\ \A j \in 1..(i - 1) : data[j].session_id # sid
    ELSE 0

get_or_create_session_always_new(data, sid) ==
    LET new_session == [session_id |-> sid,
                        messages |-> << [role |-> "system", content |-> SYSTEM_PROMPT] >>]
    IN [session |-> new_session, data |-> Append(data, new_session)]

get_or_create_session(data, sid) ==
    LET i == SessionIndex(data, sid)
        new_session == [session_id |-> sid,
                        messages |-> << [role |-> "system", content |-> SYSTEM_PROMPT] >>]
    IN IF i # 0
       THEN [session |-> data[i], data |-> data]
       ELSE [session |-> new_session, data |-> Append(data, new_session)]

add_message_rewriting(data, sid, role, content, kwargs) ==
    LET i == SessionIndex(data, sid)
        new_session == [session_id |-> sid,
                        messages |-> << [role |-> "system", content |-> SYSTEM_PROMPT],
                                        [role |-> role, content |-> content] >>]
    IN [raised |-> FALSE,
        exc |-> None,
        data |-> IF i # 0 THEN [data EXCEPT ![i] = new_session]
                 ELSE Append(data, new_session)]

add_message_unsaved(data, sid, role, content, kwargs) ==
    [raised |-> DOMAIN kwargs # {},
     exc |-> IF DOMAIN kwargs # {}
             THEN [type |-> "TypeError",
                   text |-> << "add_message() got an unexpected keyword argument" >>]
             ELSE None,
     data |-> data]

(* add_message(session_id, role, content) declares no further parameters: *)
(* a call that passes any keyword argument raises TypeError before the    *)
(* body runs.                                                             *)
add_message(data, sid, role, content, kwargs) ==
    LET i == SessionIndex(data, sid)
        entry == [role |-> role, content |-> content]
        new_session == [session_id |-> sid,
                        messages |-> << [role |-> "system", content |-> SYSTEM_PROMPT],
                                        entry >>]
    IN IF DOMAIN kwargs # {}
       THEN [raised |-> TRUE,
             exc |-> [type |-> "TypeError",
                      text |-> << "add_message() got an unexpected keyword argument" >>],
             data |-> data]
       ELSE [raised |-> FALSE,
             exc |-> None,
             data |-> IF i # 0
                      THEN [data EXCEPT ![i].messages = Append(@, entry)]
                      ELSE Append(data, new_session)]

StoredMessages(data, sid) ==
    LET i == SessionIndex(data, sid)
    IN IF i = 0 THEN << >> ELSE data[i].messages

(* ------------------------- validate_message --------------------------- *)
validate_message_off_by_one(message) ==
    IF TextLen(message) = 0 \/ TextLen(Strip(message)) = 0
    THEN [is_valid |-> FALSE, error |-> << "Message cannot be", "empty" >>]
    ELSE IF TextLen(message) >= MAX_MESSAGE_LENGTH
    THEN [is_valid |-> FALSE,
          error |-> << "Message exceeds", ToString(MAX_MESSAGE_LENGTH), "character limit" >>]
    ELSE [is_valid |-> TRUE, error |-> << >>]

validate_message(message) ==
    IF TextLen(message) = 0 \/ TextLen(Strip(message)) = 0
    THEN [is_valid |-> FALSE, error |-> << "Message cannot be", "empty" >>]
    ELSE IF TextLen(message) > MAX_MESSAGE_LENGTH
    THEN [is_valid |-> FALSE,
          error |-> << "Message exceeds", ToString(MAX_MESSAGE_LENGTH), "character limit" >>]
    ELSE [is_valid |-> TRUE, error |-> << >>]

(* ----------------------------- time_utils ----------------------------- *)
(* A timestamp is [day, hour, minute] in the local zone; confidences are  *)
(* in hundredths.  An ISO text is [iso |-> [day, hour, minute, zoned,     *)
(* offset]]; any other text is [phrase |-> [words, clock]] where words is *)
(* the set of relative keywords occurring in the lowered text and clock   *)
(* is the first match of TIME_PATTERN ([hour, minute, ampm], minute -1    *)
(* when the group is missing) or None.                                    *)
RELATIVE_KEYWORDS ==
    << [keyword |-> "day after tomorrow", offset_days |-> 2],
       [keyword |-> "tomorrow", offset_days |-> 1],
       [keyword |-> "today", offset_days |-> 0],
       [keyword |-> "tonight", offset_days |-> 0] >>

Min(a, b) == IF a < b THEN a ELSE b
Max(a, b) == IF a > b THEN a ELSE b

TimeResolution(iso, confidence, is_relative) ==
    [iso |-> iso, confidence |-> confidence, is_relative |-> is_relative]

(* format_human keeps the date, hour and minute and drops the rest.       *)
format_human(dt) == [human |-> << dt.day, dt.hour, dt.minute >>]

is_late_hour_strict(dt) == dt.hour > LATE_HOUR_THRESHOLD

is_late_hour(dt) == dt.hour >= LATE_HOUR_THRESHOLD

_try_parse_iso(value) ==
    IF "iso" \notin DOMAIN value
    THEN None
    ELSE LET t == value.iso
             total == t.hour - t.offset + LocalOffset
         IN IF ~t.zoned
            THEN [day |-> t.day, hour |-> t.hour, minute |-> t.minute]
            ELSE [day |-> t.day + (total \div 24),
                  hour |-> total % 24,
                  minute |-> t.minute]

_extract_time(value) ==
    IF value.clock = None
    THEN None
    ELSE LET m == value.clock
             minute == IF m.minute = -1 THEN 0 ELSE m.minute
             hour == IF m.ampm # ""
                     THEN (IF m.ampm = "pm" /\ m.hour < 12 THEN m.hour + 12
                           ELSE IF m.ampm = "am" /\ m.hour = 12 THEN 0
                           ELSE m.hour)
                     ELSE IF m.hour = 24 THEN 0 ELSE m.hour
         IN [hour |-> Max(0, Min(hour, 23)),
             minute |-> Max(0, Min(minute, 59)),
             confidence |-> 90]

FirstKeyword(value) ==
    IF \E i \in 1..Len(RELATIVE_KEYWORDS) : RELATIVE_KEYWORDS[i].keyword \in value.words
    THEN CHOOSE i \in 1..Len(RELATIVE_KEYWORDS) :
            /\ RELATIVE_KEYWORDS[i].keyword \in value.words
            /\ \A j \in 1..(i - 1) : RELATIVE_KEYWORDS[j].keyword \notin value.words
    ELSE 0

_try_parse_relative_trusting_clock(value, reference) ==
    LET k == FirstKeyword(value)
        extracted == _extract_time(value)
    IN IF k = 0
       THEN None
       ELSE IF extracted # None
       THEN TimeResolution([day |-> reference + RELATIVE_KEYWORDS[k].offset_days,
                            hour |-> extracted.hour,
                            minute |-> extracted.minute],
                           100, TRUE)
       ELSE TimeResolution([day |-> reference + RELATIVE_KEYWORDS[k].offset_days,
                            hour |-> IF RELATIVE_KEYWORDS[k].keyword = "tonight" THEN 20 ELSE 9,
                            minute |-> 0],
                           IF RELATIVE_KEYWORDS[k].keyword = "tonight" THEN 70 ELSE 60, TRUE)

_try_parse_relative(value, reference) ==
    LET Matched(k, extracted) ==
            LET tonight_default ==
                    RELATIVE_KEYWORDS[k].keyword = "tonight" /\ extracted = None
                hour == IF extracted # None THEN extracted.hour
                        ELSE IF tonight_default THEN 20 ELSE 9
                minute == IF extracted # None THEN extracted.minute ELSE 0
                confidence == IF extracted # None THEN extracted.confidence
                              ELSE IF tonight_default THEN 70 ELSE 60
            IN IF k = 0
               THEN None
               ELSE TimeResolution([day |-> reference + RELATIVE_KEYWORDS[k].offset_days,
                                    hour |-> hour,
                                    minute |-> minute],
                                   Min(90, confidence),
                                   TRUE)
    IN Matched(FirstKeyword(value), _extract_time(value))

resolve_time_reference(value, reference) ==
    LET Resolve(parsed, relative) ==
            IF ~Truthy(value)
            THEN TimeResolution(None, 0, FALSE)
            ELSE IF parsed # None
            THEN TimeResolution(parsed, 100, FALSE)
            ELSE IF relative # None
            THEN relative
            ELSE TimeResolution(None, 0, FALSE)
    IN Resolve(_try_parse_iso(value),
               IF "phrase" \in DOMAIN value
               THEN _try_parse_relative(value.phrase, reference)
               ELSE None)

(* ------------------- ConversationManager: date gate ------------------- *)
(* _ensure_confident_times walks required_fields + optional_fields in     *)
(* order and collects the resolved fields and the issues.                 *)
FieldResolution(arguments, field, today) ==
    resolve_time_reference(Get(arguments, field), today)

FieldSkipped(arguments, field) == Get(arguments, field) \in {None, Str("")}

FieldIssues(arguments, field, required_fields, today) ==
    LET InRequired == \E i \in 1..Len(required_fields) : required_fields[i] = field
        Issues(resolution) ==
            IF FieldSkipped(arguments, field)
            THEN (IF InRequired
                  THEN << [field |-> field, issue |-> "is required"] >>
                  ELSE << >>)
            ELSE IF resolution.iso = None
            THEN << [field |-> field, issue |-> "could not be interpreted"] >>
            ELSE (IF resolution.confidence < DATE_CONFIDENCE_THRESHOLD
                  THEN << [field |-> field,
                           issue |-> "confidence below required threshold"] >>
                  ELSE << >>)
                 \o
                 (IF is_late_hour(resolution.iso)
                  THEN << [field |-> field, issue |-> "occurs late in the day"] >>
                  ELSE << >>)
    IN Issues(FieldResolution(arguments, field, today))

RECURSIVE CollectIssues(_, _, _, _)
CollectIssues(arguments, fields, required_fields, today) ==
    IF fields = << >>
    THEN << >>
    ELSE FieldIssues(arguments, Head(fields), required_fields, today)
         \o CollectIssues(arguments, Tail(fields), required_fields, today)

Normalized(arguments, fields, today) ==
    LET resolved == { fields[i] : i \in { j \in 1..Len(fields) :
                         /\ ~FieldSkipped(arguments, fields[j])
                         /\ FieldResolution(arguments, fields[j], today).iso # None } }
        Entry(f, resolution) ==
            [iso |-> resolution.iso,
             confidence |-> resolution.confidence,
             is_relative |-> resolution.is_relative,
             human |-> format_human(resolution.iso),
             raw |-> arguments[f],
             late_hour |-> is_late_hour(resolution.iso)]
    IN [ f \in resolved |-> Entry(f, FieldResolution(arguments, f, today)) ]

_build_confirmation_error(issues, normalized) ==
    [success |-> FALSE,
     error |-> "DATE_CONFIRMATION_REQUIRED",
     details |-> [issues |-> issues,
                  resolved_values |->
                      [ f \in DOMAIN normalized |->
                          [raw |-> normalized[f].raw,
                           interpreted |-> normalized[f].human,
                           confidence |-> normalized[f].confidence] ]]]

_ensure_confident_times(arguments, required_fields, optional_fields, today) ==
    LET fields == required_fields \o optional_fields
        Gate(issues, normalized) ==
            IF issues # << >>
            THEN [normalized |-> None,
                  error_payload |-> _build_confirmation_error(issues, normalized)]
            ELSE [normalized |-> normalized, error_payload |-> None]
    IN Gate(CollectIssues(arguments, fields, required_fields, today),
            Normalized(arguments, fields, today))

_summarize_resolutions(normalized) ==
    [ f \in DOMAIN normalized |-> [iso |-> normalized[f].iso, human |-> normalized[f].human] ]

(* ------------------------- call outcomes ------------------------------ *)
(* A call either returns a value or raises; w is the world after it: the  *)
(* task file, the identifier source, and the log of operations invoked on *)
(* the Calendar Provider and the Task Manager.                            *)
Ret(v, w) == [raised |-> FALSE, value |-> v, exc |-> None, w |-> w]
Raise(type, text, w) ==
    [raised |-> TRUE, value |-> None, exc |-> [type |-> type, text |-> text], w |-> w]
Logged(w, call) == [w EXCEPT !.calls = Append(@, call)]

(* ---------------------- GoogleCalendarProvider ------------------------ *)
(* The calendar service is external: o says whether a credential can be   *)
(* obtained, whether the list and the write request succeed, which events *)
(* the window holds and which identifier the service assigns.             *)
CalendarEvent(event_id, summary, start, end) ==
    [event_id |-> event_id, summary |-> summary, start |-> start, end |-> end]

to_dict(event) ==
    [id |-> event.event_id, summary |-> event.summary,
     start |-> event.start, end |-> event.end]

ToDicts(events) == [i \in 1..Len(events) |-> to_dict(events[i])]

AuthError == << "Google Calendar token missing or invalid." >>
ApiError == << "Google Calendar API error:", "HttpError" >>

(* The request to the calendar service: it returns, the service answers   *)
(* with an HTTP error (HttpError), or the request never gets an answer    *)
(* (o.failure names the exception the client library raises then).  Every *)
(* request and every api_logger.log_call is put on w.audit.               *)
Requested(w, action, error) ==
    [w EXCEPT !.audit = Append(@, [kind |-> "attempt", service |-> "google_calendar",
                                   action |-> action, error |-> error])]

log_call_made(w, service, action, error) ==
    [w EXCEPT !.audit = Append(@, [kind |-> "log_call", service |-> service,
                                   action |-> action, error |-> error])]

Answered(w, action) ==
    log_call_made(Requested(w, action, << >>), "google_calendar", action, << >>)

RequestFailed(w, o, action) ==
    IF o.failure = "HttpError"
    THEN Raise("RuntimeError", ApiError,
               log_call_made(Requested(w, action, << "HttpError" >>),
                             "google_calendar", action, << "HttpError" >>))
    ELSE Raise(o.failure, << "Unable to find the server" >>,
               Requested(w, action, << "Unable to find the server" >>))

list_upcoming_events(max_results, w, o) ==
    LET Called(ok) == Logged(w, [op |-> "list_upcoming_events", ok |-> ok])
    IN IF ~o.auth THEN Raise("RuntimeError", AuthError, Called(FALSE))
       ELSE IF ~o.list_ok THEN RequestFailed(Called(FALSE), o, "events.list")
       ELSE Ret(o.events, Answered(Called(TRUE), "events.list"))

list_events_in_range(start_time, end_time, w, o) ==
    LET Called(ok) == Logged(w, [op |-> "list_events_in_range", ok |-> ok])
    IN IF ~o.auth THEN Raise("RuntimeError", AuthError, Called(FALSE))
       ELSE IF ~o.list_ok THEN RequestFailed(Called(FALSE), o, "events.list")
       ELSE Ret(o.events, Answered(Called(TRUE), "events.list"))

create_event(summary, start_time, end_time, w, o) ==
    LET Called(ok) == Logged(w, [op |-> "create_event", ok |-> ok])
    IN IF ~o.auth THEN Raise("RuntimeError", AuthError, Called(FALSE))
       ELSE IF ~Truthy(start_time) \/ ~Truthy(end_time)
       THEN Raise("ValueError", << "Calendar time values cannot be empty." >>,
                  Called(FALSE))
       ELSE IF ~o.write_ok THEN RequestFailed(Called(FALSE), o, "events.insert")
       ELSE Ret(CalendarEvent(o.created_id, summary, start_time, end_time),
                Answered(Called(TRUE), "events.insert"))

update_event(event_id, summary, start_time, end_time, description, location, w, o) ==
    LET Called(ok) == Logged(w, [op |-> "update_event", ok |-> ok])
        body_empty == /\ ~Truthy(summary) /\ ~Truthy(start_time) /\ ~Truthy(end_time)
                      /\ description = None /\ location = None
    IN IF ~o.auth THEN Raise("RuntimeError", AuthError, Called(FALSE))
       ELSE IF body_empty
       THEN Raise("ValueError", << "No update fields provided for calendar event." >>,
                  Called(FALSE))
       ELSE IF ~o.write_ok THEN RequestFailed(Called(FALSE), o, "events.patch")
       ELSE Ret(CalendarEvent(o.created_id, summary, start_time, end_time),
                Answered(Called(TRUE), "events.patch"))

delete_event(event_id, w, o) ==
    LET Called(ok) == Logged(w, [op |-> "delete_event", ok |-> ok])
    IN IF ~o.auth THEN Raise("RuntimeError", AuthError, Called(FALSE))
       ELSE IF ~o.write_ok THEN RequestFailed(Called(FALSE), o, "events.delete")
       ELSE Ret(None, Answered(Called(TRUE), "events.delete"))

(* The provider class defines no get_event: the lookup of the attribute   *)
(* raises before anything is invoked.                                     *)
get_event(event_id, w, o) ==
    Raise("AttributeError",
          << "'GoogleCalendarProvider' object has no attribute 'get_event'" >>, w)

(* ----------------------------- TaskManager ---------------------------- *)
VALID_PRIORITIES == {Str("low"), Str("normal"), Str("high")}
VALID_STATUSES == {Str("pending"), Str("completed")}

(* str.lower and str.strip on the strings the model uses.                 *)
Lower(v) ==
    IF v = Str("HIGH") THEN Str("high")
    ELSE IF v = Str("Low") THEN Str("low")
    ELSE IF v = Str("Completed") THEN Str("completed")
    ELSE v

StripStr(v) ==
    IF v = Str(" Pay bills ") THEN Str("Pay bills")
    ELSE IF v = Str("  ") THEN Str("")
    ELSE v

_normalize_priority_unchecked(value) ==
    IF ~Truthy(value) THEN Str("normal") ELSE Lower(value)

_normalize_priority(value) ==
    IF ~Truthy(value) THEN Str("normal")
    ELSE IF Lower(value) \notin VALID_PRIORITIES THEN Str("normal")
    ELSE Lower(value)

TaskIndex(tasks, task_id) ==
    IF \E i \in 1..Len(tasks) : tasks[i].id = task_id
    THEN CHOOSE i \in 1..Len(tasks) :
            /\ tasks[i].id = task_id
            /\ \A j \in 1..(i - 1) : tasks[j].id # task_id
    ELSE 0

create_task(title, description, due_date, priority, w) ==
    LET desc == StripStr(IF Truthy(description) THEN description ELSE Str(""))
        task == [id |-> [task |-> w.next_id],
                 title |-> StripStr(title),
                 description |-> IF Truthy(desc) THEN desc ELSE None,
                 due_date |-> due_date,
                 priority |-> _normalize_priority(priority),
                 status |-> Str("pending")]
        w1 == Logged(w, [op |-> "create_task"])
    IN Ret(task, [w1 EXCEPT !.tasks = Append(@, task), !.next_id = @ + 1])

list_tasks(status, priority, w) ==
    LET by_status == IF Truthy(status)
                     THEN SelectSeq(w.tasks, LAMBDA t : t.status = Lower(status))
                     ELSE w.tasks
        by_priority == IF Truthy(priority)
                       THEN SelectSeq(by_status, LAMBDA t : t.priority = Lower(priority))
                       ELSE by_status
    IN Ret(by_priority, Logged(w, [op |-> "list_tasks"]))

update_task_stored_early(task_id, title, description, due_date, priority, status, w) ==
    LET i == TaskIndex(w.tasks, task_id)
        w1 == Logged(w, [op |-> "update_task"])
        old == w.tasks[i]
        desc == StripStr(description)
        task == [id |-> old.id,
                 title |-> IF title # None THEN StripStr(title) ELSE old.title,
                 description |-> IF description # None
                                 THEN (IF Truthy(desc) THEN desc ELSE None)
                                 ELSE old.description,
                 due_date |-> IF due_date # None THEN due_date ELSE old.due_date,
                 priority |-> IF priority # None
                              THEN _normalize_priority(priority) ELSE old.priority,
                 status |-> IF status # None THEN Lower(status) ELSE old.status]
    IN IF i = 0
       THEN Raise("ValueError", << "Task with id", "was not found." >>, w1)
       ELSE IF status # None /\ Lower(status) \notin VALID_STATUSES
       THEN Raise("ValueError", << "Unsupported status" >>,
                  [w1 EXCEPT !.tasks[i] = [task EXCEPT !.status = old.status]])
       ELSE Ret(task, [w1 EXCEPT !.tasks[i] = task])

update_task(task_id, title, description, due_date, priority, status, w) ==
    LET i == TaskIndex(w.tasks, task_id)
        w1 == Logged(w, [op |-> "update_task"])
        old == w.tasks[i]
        desc == StripStr(description)
        task == [id |-> old.id,
                 title |-> IF title # None THEN StripStr(title) ELSE old.title,
                 description |-> IF description # None
                                 THEN (IF Truthy(desc) THEN desc ELSE None)
                                 ELSE old.description,
                 due_date |-> IF due_date # None THEN due_date ELSE old.due_date,
                 priority |-> IF priority # None
                              THEN _normalize_priority(priority) ELSE old.priority,
                 status |-> IF status # None THEN Lower(status) ELSE old.status]
    IN IF i = 0
       THEN Raise("ValueError", << "Task with id", "was not found." >>, w1)
       ELSE IF status # None /\ Lower(status) \notin VALID_STATUSES
       THEN Raise("ValueError", << "Unsupported status" >>, w1)
       ELSE Ret(task, [w1 EXCEPT !.tasks[i] = task])

delete_task_truncating(task_id, w) ==
    LET w1 == Logged(w, [op |-> "delete_task"])
        i == TaskIndex(w.tasks, task_id)
    IN IF i = 0
       THEN Raise("ValueError", << "Task with id", "was not found." >>, w1)
       ELSE Ret(None, [w1 EXCEPT !.tasks = SubSeq(w.tasks, 1, i - 1)])

delete_task(task_id, w) ==
    LET w1 == Logged(w, [op |-> "delete_task"])
        filtered == SelectSeq(w.tasks, LAMBDA t : t.id # task_id)
    IN IF Len(filtered) = Len(w.tasks)
       THEN Raise("ValueError", << "Task with id", "was not found." >>, w1)
       ELSE Ret(None, [w1 EXCEPT !.tasks = filtered])

complete_task(task_id, w) ==
    update_task(task_id, None, None, None, None, Str("completed"),
                Logged(w, [op |-> "complete_task"]))

(* ------------------ ConversationManager: tool handlers ---------------- *)
(* A handler takes the call's argument mapping; o.today is the local date *)
(* that now_local() gives while the handler runs.                         *)
NormalizedIso(normalized, field) ==
    IF field \in DOMAIN normalized THEN normalized[field].iso ELSE None

WithResolved(result, normalized) ==
    IF DOMAIN normalized # {}
    THEN result @@ [resolved_times |-> _summarize_resolutions(normalized)]
    ELSE result

_handle_list_events(arguments, w, o) ==
    LET given == IF "max_results" \in DOMAIN arguments
                 THEN arguments["max_results"] ELSE [int |-> 5]
        chosen == IF Truthy(given) THEN given ELSE [int |-> 5]
        events == list_upcoming_events(Max(1, Min(chosen.int, 20)), w, o)
    IN IF "int" \notin DOMAIN chosen
       THEN Raise("ValueError", << "invalid literal for int()" >>, w)
       ELSE IF events.raised THEN events
       ELSE Ret([events |-> ToDicts(events.value)], events.w)

_handle_check_calendar_status(arguments, w, o) ==
    LET Gated(normalized, error_payload) ==
            LET events == list_events_in_range(normalized["start_time"].iso,
                                               normalized["end_time"].iso, w, o)
            IN IF error_payload # None THEN Ret(error_payload, w)
               ELSE IF events.raised THEN events
               ELSE Ret([conflicts |-> ToDicts(events.value),
                         is_available |-> (Len(events.value) = 0),
                         resolved_times |-> _summarize_resolutions(normalized)],
                        events.w)
        Unpack(gate) == Gated(gate.normalized, gate.error_payload)
    IN Unpack(_ensure_confident_times(arguments, << "start_time", "end_time" >>,
                                      << >>, o.today))

_handle_create_event_unchecked(arguments, w, o) ==
    LET summary == Get(arguments, "summary")
        Verified(normalized, event, verified) ==
            IF verified.raised THEN verified
            ELSE Ret([created |-> TRUE,
                      event |-> to_dict(event.value),
                      resolved_times |-> _summarize_resolutions(normalized),
                      verification |-> verified.value], verified.w)
        Created(normalized, event) ==
            IF event.raised THEN event
            ELSE Verified(normalized, event,
                          IF Truthy(event.value.event_id)
                          THEN get_event(event.value.event_id, event.w, o)
                          ELSE Ret(None, event.w))
        Checked(normalized, conflicts) ==
            IF conflicts.raised THEN conflicts
            ELSE IF FALSE
            THEN Ret([created |-> FALSE,
                      conflicts |-> ToDicts(conflicts.value),
                      message |-> "Timeslot is unavailable.",
                      resolved_times |-> _summarize_resolutions(normalized)],
                     conflicts.w)
            ELSE Created(normalized,
                         create_event(summary, normalized["start_time"].iso,
                                      normalized["end_time"].iso, conflicts.w, o))
        Gated(gate) ==
            IF gate.error_payload # None THEN Ret(gate.error_payload, w)
            ELSE Checked(gate.normalized,
                         list_events_in_range(gate.normalized["start_time"].iso,
                                              gate.normalized["end_time"].iso, w, o))
    IN IF ~Truthy(summary)
       THEN Raise("ValueError",
                  << "summary, start_time, and end_time are required to create events." >>, w)
       ELSE Gated(_ensure_confident_times(arguments, << "start_time", "end_time" >>,
                                          << >>, o.today))

_handle_create_event(arguments, w, o) ==
    LET summary == Get(arguments, "summary")
        Verified(normalized, event, verified) ==
            IF verified.raised THEN verified
            ELSE Ret([created |-> TRUE,
                      event |-> to_dict(event.value),
                      resolved_times |-> _summarize_resolutions(normalized),
                      verification |-> verified.value], verified.w)
        Created(normalized, event) ==
            IF event.raised THEN event
            ELSE Verified(normalized, event,
                          IF Truthy(event.value.event_id)
                          THEN get_event(event.value.event_id, event.w, o)
                          ELSE Ret(None, event.w))
        Checked(normalized, conflicts) ==
            IF conflicts.raised THEN conflicts
            ELSE IF Len(conflicts.value) # 0
            THEN Ret([created |-> FALSE,
                      conflicts |-> ToDicts(conflicts.value),
                      message |-> "Timeslot is unavailable.",
                      resolved_times |-> _summarize_resolutions(normalized)],
                     conflicts.w)
            ELSE Created(normalized,
                         create_event(summary, normalized["start_time"].iso,
                                      normalized["end_time"].iso, conflicts.w, o))
        Gated(gate) ==
            IF gate.error_payload # None THEN Ret(gate.error_payload, w)
            ELSE Checked(gate.normalized,
                         list_events_in_range(gate.normalized["start_time"].iso,
                                              gate.normalized["end_time"].iso, w, o))
    IN IF ~Truthy(summary)
       THEN Raise("ValueError",
                  << "summary, start_time, and end_time are required to create events." >>, w)
       ELSE Gated(_ensure_confident_times(arguments, << "start_time", "end_time" >>,
                                          << >>, o.today))

_handle_update_event(arguments, w, o) ==
    LET event_id == Get(arguments, "event_id")
        Verified(normalized, event, verified) ==
            IF verified.raised THEN verified
            ELSE Ret(WithResolved([event |-> to_dict(event.value)], normalized)
                     @@ [verification |-> verified.value], verified.w)
        Updated(normalized, event) ==
            IF event.raised THEN event
            ELSE Verified(normalized, event,
                          get_event(IF Truthy(event.value.event_id)
                                    THEN event.value.event_id ELSE event_id,
                                    event.w, o))
        Gated(gate) ==
            IF gate.error_payload # None THEN Ret(gate.error_payload, w)
            ELSE Updated(gate.normalized,
                         update_event(event_id, Get(arguments, "summary"),
                                      NormalizedIso(gate.normalized, "start_time"),
                                      NormalizedIso(gate.normalized, "end_time"),
                                      Get(arguments, "description"),
                                      Get(arguments, "location"), w, o))
    IN IF ~Truthy(event_id)
       THEN Raise("ValueError", << "event_id is required to update an event." >>, w)
       ELSE Gated(_ensure_confident_times(arguments, << >>,
                                          << "start_time", "end_time" >>, o.today))

_handle_delete_event(arguments, w, o) ==
    LET event_id == Get(arguments, "event_id")
        deleted == delete_event(event_id, w, o)
        post_state == get_event(event_id, deleted.w, o)
    IN IF ~Truthy(event_id)
       THEN Raise("ValueError", << "event_id is required to delete an event." >>, w)
       ELSE IF deleted.raised THEN deleted
       ELSE IF post_state.raised THEN post_state
       ELSE Ret([deleted |-> TRUE, event_id |-> event_id,
                 verified_deleted |-> (post_state.value = None)], post_state.w)

_handle_create_task(arguments, w, o) ==
    LET title == Get(arguments, "title")
        Created(normalized, task) ==
            Ret(WithResolved([task |-> task.value], normalized), task.w)
        Gated(gate) ==
            IF gate.error_payload # None THEN Ret(gate.error_payload, w)
            ELSE Created(gate.normalized,
                         create_task(title, Get(arguments, "description"),
                                     NormalizedIso(gate.normalized, "due_date"),
                                     IF "priority" \in DOMAIN arguments
                                     THEN arguments["priority"] ELSE Str("normal"), w))
    IN IF ~Truthy(title)
       THEN Raise("ValueError", << "title is required to create a task." >>, w)
       ELSE Gated(_ensure_confident_times(arguments, << >>, << "due_date" >>, o.today))

_handle_list_tasks(arguments, w, o) ==
    LET tasks == list_tasks(Get(arguments, "status"), Get(arguments, "priority"), w)
    IN Ret([tasks |-> tasks.value, count |-> Len(tasks.value)], tasks.w)

_handle_update_task(arguments, w, o) ==
    LET task_id == Get(arguments, "task_id")
        Updated(normalized, task) ==
            IF task.raised THEN task
            ELSE Ret(WithResolved([task |-> task.value], normalized), task.w)
        Gated(gate) ==
            IF gate.error_payload # None THEN Ret(gate.error_payload, w)
            ELSE Updated(gate.normalized,
                         update_task(task_id, Get(arguments, "title"),
                                     Get(arguments, "description"),
                                     IF DOMAIN gate.normalized # {}
                                     THEN NormalizedIso(gate.normalized, "due_date")
                                     ELSE Get(arguments, "due_date"),
                                     Get(arguments, "priority"), None, w))
    IN IF ~Truthy(task_id)
       THEN Raise("ValueError", << "task_id is required to update a task." >>, w)
       ELSE Gated(_ensure_confident_times(arguments, << >>, << "due_date" >>, o.today))

_handle_delete_task(arguments, w, o) ==
    LET task_id == Get(arguments, "task_id")
        deleted == delete_task(task_id, w)
    IN IF ~Truthy(task_id)
       THEN Raise("ValueError", << "task_id is required to delete a task." >>, w)
       ELSE IF deleted.raised THEN deleted
       ELSE Ret([deleted |-> TRUE, task_id |-> task_id], deleted.w)

_handle_complete_task(arguments, w, o) ==
    LET task_id == Get(arguments, "task_id")
        task == complete_task(task_id, w)
    IN IF ~Truthy(task_id)
       THEN Raise("ValueError", << "task_id is required to complete a task." >>, w)
       ELSE IF task.raised THEN task
       ELSE Ret([task |-> task.value], task.w)

(* ------------- ConversationManager: registry and dispatch ------------- *)
CALENDAR_TOOLS ==
    {"list_upcoming_events", "check_calendar_status", "create_calendar_event",
     "update_calendar_event", "delete_calendar_event"}
TASK_TOOLS ==
    {"create_task", "list_tasks", "update_task", "delete_task", "complete_task"}

(* _register_tool_handlers: the handler registry maps a tool name to the  *)
(* method registered for it, the disabled map to its message.             *)
tool_handlers(calendar_on, tasks_on) ==
    [ name \in (IF calendar_on THEN CALENDAR_TOOLS ELSE {})
               \cup (IF tasks_on THEN TASK_TOOLS ELSE {}) |->
        CASE name = "list_upcoming_events" -> "_handle_list_events"
          [] name = "check_calendar_status" -> "_handle_check_calendar_status"
          [] name = "create_calendar_event" -> "_handle_create_event"
          [] name = "update_calendar_event" -> "_handle_update_event"
          [] name = "delete_calendar_event" -> "_handle_delete_event"
          [] name = "create_task" -> "_handle_create_task"
          [] name = "list_tasks" -> "_handle_list_tasks"
          [] name = "update_task" -> "_handle_update_task"
          [] name = "delete_task" -> "_handle_delete_task"
          [] name = "complete_task" -> "_handle_complete_task" ]

disabled_tool_messages_none(calendar_on, tasks_on) == [ name \in {} |-> "" ]

disabled_tool_messages(calendar_on, tasks_on) ==
    [ name \in (IF calendar_on THEN {} ELSE CALENDAR_TOOLS)
               \cup (IF tasks_on THEN {} ELSE TASK_TOOLS) |->
        IF name \in CALENDAR_TOOLS
        THEN "Calendar features are disabled for this Jarvis instance."
        ELSE "Task management is disabled for this Jarvis instance." ]

(* _validate_tool_configuration on a registry holding handler_names: the  *)
(* names expected are those of the tool definitions of the enabled        *)
(* features; the error names the tools without a handler and the handlers *)
(* without a tool definition (each list sorted, so given here as a set).  *)
_extract_tool_names(tool_definitions) == tool_definitions

ExpectedNames(calendar_on, tasks_on) ==
    (IF calendar_on THEN _extract_tool_names(CALENDAR_TOOLS) ELSE {})
    \cup (IF tasks_on THEN _extract_tool_names(TASK_TOOLS) ELSE {})

_validate_tool_configuration_missing_only(handler_names, calendar_on, tasks_on) ==
    LET missing_handlers == ExpectedNames(calendar_on, tasks_on) \ handler_names
    IN IF missing_handlers # {}
       THEN [raised |-> TRUE,
             exc |-> [type |-> "RuntimeError",
                      text |-> << "Tool configuration mismatch detected.",
                                  "Absent handlers for tools:" >>,
                      missing |-> missing_handlers,
                      unexpected |-> {}]]
       ELSE [raised |-> FALSE, exc |-> None]

_validate_tool_configuration(handler_names, calendar_on, tasks_on) ==
    LET missing_handlers == ExpectedNames(calendar_on, tasks_on) \ handler_names
        unexpected_handlers == handler_names \ ExpectedNames(calendar_on, tasks_on)
    IN IF missing_handlers # {} \/ unexpected_handlers # {}
       THEN [raised |-> TRUE,
             exc |-> [type |-> "RuntimeError",
                      text |-> << "Tool configuration mismatch detected." >>
                               \o (IF missing_handlers # {}
                                   THEN << "Absent handlers for tools:" >> ELSE << >>)
                               \o (IF unexpected_handlers # {}
                                   THEN << "Handlers registered without tool metadata:" >>
                                   ELSE << >>),
                      missing |-> missing_handlers,
                      unexpected |-> unexpected_handlers]]
       ELSE [raised |-> FALSE, exc |-> None]

CallHandler(handler, arguments, w, o) ==
    CASE handler = "_handle_list_events" -> _handle_list_events(arguments, w, o)
      [] handler = "_handle_check_calendar_status" ->
            _handle_check_calendar_status(arguments, w, o)
      [] handler = "_handle_create_event" -> _handle_create_event(arguments, w, o)
      [] handler = "_handle_update_event" -> _handle_update_event(arguments, w, o)
      [] handler = "_handle_delete_event" -> _handle_delete_event(arguments, w, o)
      [] handler = "_handle_create_task" -> _handle_create_task(arguments, w, o)
      [] handler = "_handle_list_tasks" -> _handle_list_tasks(arguments, w, o)
      [] handler = "_handle_update_task" -> _handle_update_task(arguments, w, o)
      [] handler = "_handle_delete_task" -> _handle_delete_task(arguments, w, o)
      [] handler = "_handle_complete_task" -> _handle_complete_task(arguments, w, o)

_execute_tool(tool_call, calendar_on, tasks_on, w, o) ==
    LET disabled == disabled_tool_messages(calendar_on, tasks_on)
        handlers == tool_handlers(calendar_on, tasks_on)
        Outcome(outcome) ==
            IF outcome.raised
            THEN [result |-> [success |-> FALSE, error |-> outcome.exc.text],
                  w |-> outcome.w]
            ELSE [result |-> [success |-> TRUE, result |-> outcome.value],
                  w |-> outcome.w]
    IN IF tool_call.name \in DOMAIN disabled
       THEN [result |-> [success |-> FALSE, error |-> << disabled[tool_call.name] >>],
             w |-> w]
       ELSE IF tool_call.name \notin DOMAIN handlers
       THEN [result |-> [success |-> FALSE,
                         error |-> << "Unsupported tool:", tool_call.name >>],
             w |-> w]
       ELSE Outcome(CallHandler(handlers[tool_call.name], tool_call.arguments, w, o))

(* ---------------------------- OpenAIClient ---------------------------- *)
(* __init__: self.tools holds the definitions of the enabled features;   *)
(* given here by the names they declare.                                  *)
client_tools_all(calendar_on, tasks_on) == CALENDAR_TOOLS \cup TASK_TOOLS

client_tools(calendar_on, tasks_on) ==
    (IF calendar_on THEN CALENDAR_TOOLS ELSE {}) \cup (IF tasks_on THEN TASK_TOOLS ELSE {})

(* The completion service is external: an outcome is a failure carrying   *)
(* the service's error text, or the message of the first choice.  The     *)
(* argument text of a raw tool call is [json |-> mapping] when it parses  *)
(* and anything else when it does not.                                    *)
_extract_tool_calls(message) ==
    [ i \in 1..Len(message.tool_calls) |->
        [id |-> message.tool_calls[i].id,
         name |-> message.tool_calls[i].function.name,
         arguments |-> IF "json" \in DOMAIN message.tool_calls[i].function.arguments
                       THEN message.tool_calls[i].function.arguments.json
                       ELSE EmptyDict] ]

_message_to_dict(message) ==
    IF Len(message.tool_calls) # 0
    THEN [role |-> message.role, content |-> message.content,
          tool_calls |-> message.tool_calls]
    ELSE [role |-> message.role, content |-> message.content]

(* Every failure of the completion call is caught, logged with its text   *)
(* and raised again as one exception type; a success is logged after the  *)
(* response has been read.                                                *)
CompletionAudit(error) ==
    << [kind |-> "attempt", service |-> "openai",
        action |-> "chat.completions.create", error |-> error],
       [kind |-> "log_call", service |-> "openai",
        action |-> "chat.completions.create", error |-> error] >>

get_response(messages, api) ==
    IF ~api.ok
    THEN [raised |-> TRUE,
          exc |-> [type |-> "Exception", text |-> << "OpenAI API error:", api.error >>],
          value |-> None,
          audit |-> CompletionAudit(<< api.error >>)]
    ELSE [raised |-> FALSE,
          exc |-> None,
          value |-> [content |-> api.message.content,
                     tool_calls |-> _extract_tool_calls(api.message),
                     message |-> _message_to_dict(api.message)],
          audit |-> CompletionAudit(<< >>)]

(* ------------------ ConversationManager: the turn --------------------- *)
UnableToComplete ==
    << "Unable to complete the response after handling tool calls.", "Please try again." >>

_format_error_message(error_text) ==
    IF \E i \in 1..Len(error_text) :
          error_text[i] \in {"Google Calendar token missing or invalid.",
                             "Google Calendar API error:"}
    THEN << "I couldn't access Google Calendar." >>
    ELSE error_text

UnexpectedError_generic(exc) == << "Jarvis ran into an unexpected error." >>

UnexpectedError(exc) == << "Jarvis ran into an unexpected error." >> \o exc.text

_build_time_context_message(now) ==
    [role |-> "system", content |-> [reference |-> format_human(now)]]

ExtraFields(message) ==
    [ k \in DOMAIN message \ {"role", "content"} |-> message[k] ]

(* _handle_tool_calls: st carries the document, both message lists and    *)
(* the world; os gives the environment of each call.  An exception of     *)
(* storage.add_message leaves the loop at once.                           *)
RECURSIVE _handle_tool_calls(_, _, _, _, _, _)
_handle_tool_calls(st, sid, tool_calls, os, calendar_on, tasks_on) ==
    IF tool_calls = << >>
    THEN st
    ELSE LET tool_call == Head(tool_calls)
             Record(executed) ==
                 LET tool_content == [json |-> executed.result]
                     tool_message == [role |-> "tool",
                                      tool_call_id |-> tool_call.id,
                                      name |-> tool_call.name,
                                      content |-> tool_content]
                     added == add_message(st.data, sid, "tool", tool_content,
                                          [tool_call_id |-> tool_call.id,
                                           name |-> tool_call.name])
                     st1 == [st EXCEPT !.persistent = Append(@, tool_message),
                                       !.runtime = Append(@, tool_message),
                                       !.w = executed.w,
                                       !.data = added.data]
                 IN IF added.raised
                    THEN [st1 EXCEPT !.raised = TRUE, !.exc = added.exc]
                    ELSE _handle_tool_calls(st1, sid, Tail(tool_calls), Tail(os),
                                            calendar_on, tasks_on)
         IN Record(_execute_tool(tool_call, calendar_on, tasks_on, st.w, Head(os)))

(* One iteration of the loop of _run_conversation_loop, from the call of  *)
(* the completion client to the next call or to the end of the turn.      *)
AssistantStep(st, sid, api) ==
    LET response == get_response(st.runtime, api)
        assistant_message == response.value.message
        added == add_message(st.data, sid, assistant_message.role,
                             assistant_message.content, ExtraFields(assistant_message))
        st1 == [st EXCEPT !.persistent = Append(@, assistant_message),
                          !.runtime = Append(@, assistant_message),
                          !.data = added.data]
    IN IF response.raised
       THEN [st EXCEPT !.raised = TRUE, !.exc = response.exc]
       ELSE IF added.raised
       THEN [st1 EXCEPT !.raised = TRUE, !.exc = added.exc]
       ELSE st1

ReachesTools(st, sid, api) ==
    /\ ~AssistantStep(st, sid, api).raised
    /\ Len(get_response(st.runtime, api).value.tool_calls) # 0

(* ------------------------------ inputs -------------------------------- *)
ServiceErrors == {"API Error", "Rate limit reached"}
AssistantContents == {None, Str(""), Str("Hello! How can I help?")}
Clock == { [day |-> 0, hour |-> 10, minute |-> 0] }

IsoText(day, hour, zoned, offset) ==
    [iso |-> [day |-> day, hour |-> hour, minute |-> 0, zoned |-> zoned, offset |-> offset]]
Phrase(words, clock) == [phrase |-> [words |-> words, clock |-> clock]]
ClockText(hour, minute, ampm) == [hour |-> hour, minute |-> minute, ampm |-> ampm]

(* Time arguments: absent, blank, explicit timestamps (09:00 local, 19:00 *)
(* UTC), "tomorrow at 3 pm", "tonight", "tomorrow 10pm", "someday maybe". *)
RawTimes ==
    { None, Str(""),
      IsoText(0, 9, FALSE, 0),
      IsoText(0, 19, TRUE, 0),
      Phrase({"tomorrow"}, ClockText(3, -1, "pm")),
      Phrase({"tonight"}, None),
      Phrase({"tomorrow"}, ClockText(10, -1, "pm")),
      Phrase({}, None) }

(* An argument mapping from optional fields: a field whose value is the   *)
(* marker Absent is left out of the mapping.                              *)
Absent == [absent |-> TRUE]
Mapping(fields) == [ k \in { f \in DOMAIN fields : fields[f] # Absent } |-> fields[k] ]

TimeChoices == (RawTimes \ {None}) \cup {Absent}
TaskIds == { [task |-> 1], [task |-> 2] }

ToolArguments(name) ==
    CASE name = "list_upcoming_events" ->
            { Mapping([max_results |-> m]) :
                m \in {Absent, [int |-> 0], [int |-> 50], Str("many")} }
      [] name = "check_calendar_status" ->
            { Mapping([start_time |-> s, end_time |-> e]) :
                s \in TimeChoices, e \in TimeChoices }
      [] name = "create_calendar_event" ->
            { Mapping([summary |-> t, start_time |-> s, end_time |-> e]) :
                t \in {Absent, Str("Meeting")}, s \in TimeChoices, e \in TimeChoices }
      [] name = "update_calendar_event" ->
            { Mapping([event_id |-> i, summary |-> t, start_time |-> s, end_time |-> e]) :
                i \in {Absent, Str("evt_10")}, t \in {Absent, Str("Meeting")},
                s \in TimeChoices, e \in TimeChoices }
      [] name = "delete_calendar_event" ->
            { Mapping([event_id |-> i]) : i \in {Absent, Str("evt_10")} }
      [] name = "create_task" ->
            { Mapping([title |-> t, due_date |-> d, priority |-> p]) :
                t \in {Absent, Str(" Pay bills ")}, d \in TimeChoices,
                p \in {Absent, Str("HIGH"), Str("urgent")} }
      [] name = "list_tasks" ->
            { Mapping([status |-> st, priority |-> p]) :
                st \in {Absent, Str("Completed")}, p \in {Absent, Str("high")} }
      [] name = "update_task" ->
            { Mapping([task_id |-> i, title |-> t, due_date |-> d, priority |-> p]) :
                i \in TaskIds \cup {Absent}, t \in {Absent, Str("Pay bills")},
                d \in TimeChoices, p \in {Absent, Str("Low")} }
      [] name = "delete_task" ->
            { Mapping([task_id |-> i]) : i \in TaskIds \cup {Absent} }
      [] name = "complete_task" ->
            { Mapping([task_id |-> i]) : i \in TaskIds \cup {Absent} }
      [] OTHER -> { EmptyDict }

ToolNames == CALENDAR_TOOLS \cup TASK_TOOLS \cup {"send_email"}

ToolRequests ==
    UNION { { [id |-> "tool_1", name |-> n, arguments |-> a] : a \in ToolArguments(n) } :
            n \in ToolNames }

SampleEvent == CalendarEvent(Str("evt_7"), Str("Standup"),
                             [day |-> 0, hour |-> 9, minute |-> 0],
                             [day |-> 0, hour |-> 10, minute |-> 0])

(* The way a request fails matters only when some request fails.          *)
Oracles ==
    { o \in [auth : BOOLEAN, list_ok : BOOLEAN, write_ok : BOOLEAN,
             failure : {"HttpError", "ServerNotFoundError"},
             events : {<< >>, << SampleEvent >>},
             created_id : {None, Str("evt_10")},
             today : {0}] :
        o.failure = "HttpError" \/ ~o.list_ok \/ ~o.write_ok }

QuietOracle ==
    [auth |-> TRUE, list_ok |-> TRUE, write_ok |-> TRUE, failure |-> "HttpError",
     events |-> << >>, created_id |-> Str("evt_10"), today |-> 0]

(* Raw tool calls a completion response may list.                         *)
RawCall(id, name, arguments) ==
    [id |-> id, type |-> "function", function |-> [name |-> name, arguments |-> arguments]]

RawCalls ==
    { RawCall("tool_1", "create_task", [json |-> [title |-> Str("Pay bills")]]),
      RawCall("tool_2", "create_calendar_event", [garbage |-> TRUE]) }

RECURSIVE SeqsUpTo(_, _)
SeqsUpTo(S, n) ==
    IF n = 0 THEN { << >> }
    ELSE SeqsUpTo(S, n - 1)
         \cup { Append(q, x) : q \in { p \in SeqsUpTo(S, n - 1) : Len(p) = n - 1 }, x \in S }

(* What a completion call gives: a failure of the service, a message      *)
(* without tool calls, or a message listing tool calls (with or without   *)
(* text beside them).                                                     *)
Completion(content, tool_calls) ==
    [ok |-> TRUE, error |-> "",
     message |-> [role |-> "assistant", content |-> content, tool_calls |-> tool_calls]]

ApiOutcomes ==
    { [ok |-> FALSE, error |-> e, message |-> None] : e \in ServiceErrors }
    \cup { Completion(c, << >>) : c \in AssistantContents }
    \cup { Completion(c, t) : c \in AssistantContents \ {Str("")},
                              t \in SeqsUpTo(RawCalls, MaxToolCalls) \ { << >> } }

(* ------------------------------- state -------------------------------- *)
(* ------------------------------ ApiLogger ----------------------------- *)
(* The logger: its switch, its lock (0 when free, else the holder), what  *)
(* it remembers while disabled, the warnings of the fallback logger and   *)
(* the pieces written to the log file.  A record reaches the file in two  *)
(* pieces, the line and its terminator.                                   *)
ENABLE_LOGGING == TRUE

ApiLogger(enabled) ==
    [enabled |-> enabled,
     _lock |-> 0,
     _disabled_warning_emitted |-> FALSE,
     _last_disabled_error |-> None,
     warnings |-> << >>,
     file |-> << >>]

(* str() of an error text.                                                *)
ErrorStr(error) == IF "str" \in DOMAIN error THEN error ELSE Str("None")

FallbackWarning(service, action, error) ==
    [text |-> "API logging disabled; first error captured from",
     service |-> service, action |-> action, error |-> error]

LogEntry(service, action, error) ==
    [service |-> service, action |-> action,
     error |-> IF error = None THEN None ELSE ErrorStr(error)]

(* log_call run from its first line to its last with no other thread in   *)
(* between; by names the thread that makes the call.                      *)
log_call_warning_each(logger, service, action, error, by) ==
    IF ~logger.enabled
    THEN IF Truthy(error)
         THEN IF TRUE
              THEN [logger EXCEPT
                      !._last_disabled_error = ErrorStr(error),
                      !.warnings = Append(@, FallbackWarning(service, action,
                                                             ErrorStr(error))),
                      !._disabled_warning_emitted = TRUE]
              ELSE [logger EXCEPT !._last_disabled_error = ErrorStr(error)]
         ELSE logger
    ELSE [logger EXCEPT
            !.file = @ \o << [by |-> by, piece |-> "line",
                              entry |-> LogEntry(service, action, error)],
                             [by |-> by, piece |-> "terminator",
                              entry |-> LogEntry(service, action, error)] >>]

log_call(logger, service, action, error, by) ==
    IF ~logger.enabled
    THEN IF Truthy(error)
         THEN IF ~logger._disabled_warning_emitted
              THEN [logger EXCEPT
                      !._last_disabled_error = ErrorStr(error),
                      !.warnings = Append(@, FallbackWarning(service, action,
                                                             ErrorStr(error))),
                      !._disabled_warning_emitted = TRUE]
              ELSE [logger EXCEPT !._last_disabled_error = ErrorStr(error)]
         ELSE logger
    ELSE [logger EXCEPT
            !.file = @ \o << [by |-> by, piece |-> "line",
                              entry |-> LogEntry(service, action, error)],
                             [by |-> by, piece |-> "terminator",
                              entry |-> LogEntry(service, action, error)] >>]

last_disabled_error(logger) == logger._last_disabled_error

Threads == 1..MaxThreads

LogErrors == {None, Str(""), Str("boom"), Str("bang")}

LogTargets ==
    { [service |-> "openai", action |-> "chat.completions.create"],
      [service |-> "google_calendar", action |-> "events.list"] }

(* ----------------------------- jarvis_chat ---------------------------- *)
(* A request to /chat: is_json says whether the content type declares     *)
(* JSON, data is what request.json gives: Malformed when parsing raises,  *)
(* None for null, a list, or an object with its message and session_id    *)
(* (Absent when the key is missing) and whether it has any other key.     *)
Malformed == [malformed |-> TRUE]
JsonList(n) == [list |-> n]
JsonObject(message, sid, extra) ==
    [object |-> TRUE, message |-> message, session_id |-> sid, extra |-> extra]
IsObject(data) == "object" \in DOMAIN data
IsText(v) == "ws" \in DOMAIN v

(* `not data`: null, the empty list and the empty object are falsy.       *)
NotData(data) ==
    \/ data = None
    \/ data = JsonList(0)
    \/ IsObject(data) /\ data.message = Absent /\ data.session_id = Absent /\ ~data.extra

JsonResponse(body, status) == [status |-> status, body |-> body]
ErrorBody(text) == [error |-> text]
ServerError(text) == JsonResponse(ErrorBody(<< "Server error:" >> \o text), 500)

ChatMessages == { Absent, None, [int |-> 5], [ws |-> 1, nw |-> 0], [ws |-> 1, nw |-> 2] }

ChatRequests ==
    { [is_json |-> FALSE, data |-> None],
      [is_json |-> TRUE, data |-> Malformed],
      [is_json |-> TRUE, data |-> None],
      [is_json |-> TRUE, data |-> JsonList(0)],
      [is_json |-> TRUE, data |-> JsonList(1)],
      [is_json |-> TRUE, data |-> JsonObject(Absent, Absent, FALSE)],
      [is_json |-> TRUE, data |-> JsonObject(Absent, Absent, TRUE)] }
    \cup { [is_json |-> TRUE, data |-> JsonObject(message, sid, FALSE)] :
             message \in ChatMessages, sid \in {Absent, Str("session1")} }

(* chat up to the call of get_conv_manager: either the response it        *)
(* returns at once, or the stripped message and the session identifier.   *)
chat_read(request) ==
    LET data == request.data
        Done(response) == [done |-> TRUE, response |-> response,
                           user_message |-> None, session_id |-> None]
    IN IF ~request.is_json
       THEN Done(JsonResponse(ErrorBody(<< "Request must be JSON" >>), 400))
       ELSE IF data = Malformed
       THEN Done(ServerError(<< "400 Bad Request" >>))
       ELSE IF NotData(data)
       THEN Done(JsonResponse(ErrorBody(<< "Invalid JSON data" >>), 400))
       ELSE IF ~IsObject(data)
       THEN Done(ServerError(<< "'list' object has no attribute 'get'" >>))
       ELSE IF data.message # Absent /\ ~IsText(data.message)
       THEN Done(ServerError(<< "object has no attribute 'strip'" >>))
       ELSE LET user_message_ == IF data.message = Absent
                                 THEN [ws |-> 0, nw |-> 0]
                                 ELSE Strip(data.message)
                session_id_ == IF data.session_id = Absent
                               THEN Str("default")
                               ELSE data.session_id
            IN IF TextLen(user_message_) = 0
               THEN Done(JsonResponse(ErrorBody(<< "Message cannot be empty" >>), 400))
               ELSE [done |-> FALSE, response |-> None,
                     user_message |-> user_message_, session_id |-> session_id_]

(* What process_message gives the handler: a response, an error text, or  *)
(* an exception from the validation or the storage outside its try.       *)
ProcessOutcomes ==
    { [raised |-> FALSE, response |-> Str("Hello! How can I help?"), error |-> << >>],
      [raised |-> FALSE, response |-> None, error |-> _format_error_message(UnableToComplete)],
      [raised |-> FALSE, response |-> None,
       error |-> << "Message exceeds", ToString(MAX_MESSAGE_LENGTH), "character limit" >>],
      [raised |-> TRUE, response |-> None, error |-> << "Permission denied" >>] }

chat_reply_ok_on_error(sid, outcome) ==
    IF outcome.raised
    THEN ServerError(outcome.error)
    ELSE JsonResponse([response |-> outcome.response, session_id |-> sid], 200)

(* chat from the return of process_message.                               *)
chat_reply(sid, outcome) ==
    IF outcome.raised
    THEN ServerError(outcome.error)
    ELSE IF outcome.error # << >>
    THEN JsonResponse(ErrorBody(outcome.error), 400)
    ELSE JsonResponse([response |-> outcome.response, session_id |-> sid], 200)

NoOutcome == [raised |-> FALSE, response |-> None, error |-> << >>]

(* A request thread: pc inside chat / get_conv_manager, the request it    *)
(* serves, the instance it constructed and the one get_conv_manager gave  *)
(* it.  An answer keeps the request, the instance that processed it, what *)
(* process_message gave and the response sent.                            *)
ChatThread(pc_, request, built, manager) ==
    [pc |-> pc_, request |-> request, built |-> built, manager |-> manager]

ChatAnswer(request, manager, outcome, response) ==
    [request |-> request, manager |-> manager, outcome |-> outcome, response |-> response]

ChatIdle == [t \in Threads |-> ChatThread("idle", None, 0, 0)]

(* ------------- GoogleCalendarProvider.ensure_authenticated ------------ *)
(* A credential: whether it holds an access token, whether that token has *)
(* expired, whether it carries a refresh token.  valid is the property of *)
(* google.oauth2 Credentials: a token that has not expired.               *)
Credential(token, expired, refresh_token) ==
    [token |-> token, expired |-> expired, refresh_token |-> refresh_token]
Valid(creds) == creds.token /\ ~creds.expired

ValidCredential == Credential(TRUE, FALSE, TRUE)
Credentials ==
    { ValidCredential, Credential(TRUE, TRUE, TRUE), Credential(TRUE, TRUE, FALSE),
      Credential(FALSE, FALSE, FALSE) }

(* The token file: absent (None), unreadable as a credential, or a saved  *)
(* credential.                                                            *)
Unreadable == [unreadable |-> TRUE]
TokenFiles == {None, Unreadable} \cup Credentials

(* What the surroundings do during one call: whether the refresh request  *)
(* renews the token, returns with the token still expired, or raises;     *)
(* whether the client-credentials file exists; what the consent flow      *)
(* gives.                                                                 *)
FlowRaises == [raises |-> TRUE]
AuthEnvironments ==
    [refresh : {"renewed", "still expired", "raises"},
     credentials_file : BOOLEAN,
     flow : {FlowRaises, ValidCredential, Credential(FALSE, FALSE, FALSE)}]

AuthHelp ==
    AuthError \o << "Run python scripts/authenticate_calendar.py to authorize access." >>

GoogleCalendarProvider(allow_interactive_auth) ==
    [_creds |-> None, allow_interactive_auth |-> allow_interactive_auth]

(* ensure_authenticated on provider self with the token file as it is:    *)
(* the provider and the token file afterwards, what it returned or        *)
(* raised, and the steps it took.                                         *)
AuthOutcome(self, token_file_, raised, exc, creds, steps) ==
    [self |-> self, token_file |-> token_file_, raised |-> raised, exc |-> exc,
     creds |-> creds, steps |-> steps]
AuthRaise(self, token_file_, type, text, steps) ==
    AuthOutcome(self, token_file_, TRUE, [type |-> type, text |-> text], None, steps)

AuthFinish(self, token_file_, creds, steps) ==
    IF creds = None \/ ~Valid(creds)
    THEN AuthRaise(self, token_file_, "RuntimeError", AuthHelp, steps)
    ELSE AuthOutcome([self EXCEPT !._creds = creds], token_file_, FALSE, None, creds, steps)

ensure_authenticated(self, token_file_, env) ==
    IF self._creds # None /\ Valid(self._creds)
    THEN AuthOutcome(self, token_file_, FALSE, None, self._creds, << "cached" >>)
    ELSE IF token_file_ = Unreadable
    THEN AuthRaise(self, token_file_, "ValueError", << "Invalid token file" >>, << "load" >>)
    ELSE LET loaded == token_file_
             load == IF loaded = None THEN << >> ELSE << "load" >>
         IN IF loaded # None /\ loaded.expired /\ loaded.refresh_token
            THEN IF env.refresh = "raises"
                 THEN AuthRaise(self, token_file_, "RefreshError",
                                << "invalid_grant: Token has been expired or revoked." >>,
                                load \o << "refresh" >>)
                 ELSE AuthFinish(self, token_file_,
                                 IF env.refresh = "renewed"
                                 THEN [loaded EXCEPT !.expired = FALSE]
                                 ELSE loaded,
                                 load \o << "refresh" >>)
            ELSE IF (loaded = None \/ ~Valid(loaded)) /\ self.allow_interactive_auth
            THEN IF ~env.credentials_file
                 THEN AuthRaise(self, token_file_, "FileNotFoundError",
                                << "Client credentials not found" >>, load)
                 ELSE IF env.flow = FlowRaises
                 THEN AuthRaise(self, token_file_, "Error",
                                << "authorization flow failed" >>, load \o << "flow" >>)
                 ELSE AuthFinish(self, env.flow, env.flow, load \o << "flow", "save" >>)
            ELSE AuthFinish(self, token_file_, loaded, load)

(* A thread inside add_message: before it, or between its load and its   *)
(* save with the document it loaded.                                      *)
Writer(pc_, sid, entry, loaded) ==
    [pc |-> pc_, session_id |-> sid, entry |-> entry, loaded |-> loaded]
WritersIdle == [t \in Threads |-> Writer("idle", "", None, << >>)]

VARIABLES
    conversations,        \* the persisted conversation document
    enable_calendar, enable_tasks,
    tasks, next_id,       \* the persisted task list, the identifier source
    pc,                   \* "idle", "loop" (inside process_message), "returned"
    session_id, user_message,
    persistent_messages, runtime_messages,
    iteration,            \* iterations of the tool-call loop completed
    result,               \* what process_message returned
    api_calls,            \* calls of get_response in the current turn
    responses,            \* what each of those calls gave: [kind, error]
    pre_turn,             \* the document when the current turn began
    turns,                \* turns begun
    provider_calls,       \* provider / task-manager operations of the last step
    tool_call, tool_env, tool_result, tool_runs,
    audit_trail,          \* outbound requests and log_call records of the last step
    registry, construction,   \* handler names registered, outcome of the validation
    task_op, tasks_before, deleted_ids,   \* last TaskManager operation, list before it
    api_logger,           \* the module-level ApiLogger and what it has written
    log_calls,            \* the log_call invocations made so far
    threads,              \* where each request thread is inside log_call
    storage_op,           \* last ConversationStorage operation applied on its own
    appended,             \* the messages appended to each session by those operations
    conv_manager,  \* the module-level holder of jarvis_chat: 0 is None, else the instance
    managers,  \* ConversationManager instances constructed so far
    chat,  \* where each request thread is inside the /chat handler
    served,  \* the instances that have processed a message
    requests,  \* requests received on /chat
    answered,  \* the request answered last on /chat, with its response
    provider,  \* the GoogleCalendarProvider under authentication, None before __init__
    token_file,  \* what the token file holds
    auth_op,  \* the last ensure_authenticated call: provider and file before, outcome
    writers,  \* where each thread is inside add_message, and what it loaded
    write_trace,  \* the loads and saves of those threads, in order
    writes   \* add_message calls begun by those threads

vars == << conversations, enable_calendar, enable_tasks, tasks, next_id, pc,
           session_id, user_message, persistent_messages, runtime_messages,
           iteration, result, api_calls, responses, pre_turn, turns, provider_calls,
           tool_call, tool_env, tool_result, tool_runs, audit_trail,
           registry, construction, task_op, tasks_before, deleted_ids,
           api_logger, log_calls, threads, storage_op, appended, conv_manager, managers, chat, served, requests, answered, provider, token_file, auth_op, writers, write_trace, writes >>

storage_vars == << storage_op, appended >>
writer_vars == << writers, write_trace, writes >>
auth_vars == << provider, token_file, auth_op >>
chat_vars == << conv_manager, managers, chat, served, requests, answered >>
other_vars == << storage_vars, chat_vars, auth_vars, writer_vars >>

config_vars == << registry, construction >>
task_vars == << task_op, tasks_before, deleted_ids >>
logger_vars == << api_logger, log_calls, threads >>

turn_vars == << pc, session_id, user_message, persistent_messages, runtime_messages,
                iteration, result, api_calls, responses, pre_turn, turns >>
tool_vars == << tool_call, tool_env, tool_result, tool_runs >>

NoResult == [response |-> None, error |-> << >>]

(* The state once the ConversationManager has been constructed and the    *)
(* module-level logger created: the registry is the one                   *)
(* _register_tool_handlers fills and the validation has passed.           *)
Constructed ==
    /\ registry = DOMAIN tool_handlers(enable_calendar, enable_tasks)
    /\ construction = _validate_tool_configuration(registry, enable_calendar, enable_tasks)

OthersIdle ==
    /\ storage_op = None
    /\ appended = [sid \in SessionIds |-> << >>]
    /\ conv_manager = 0
    /\ managers = 0
    /\ chat = ChatIdle
    /\ served = {}
    /\ requests = 0
    /\ answered = None
    /\ provider = None
    /\ token_file = None
    /\ auth_op = None
    /\ writers = WritersIdle
    /\ write_trace = << >>
    /\ writes = 0

Started ==
    /\ OthersIdle
    /\ conversations = << >>
    /\ enable_calendar \in BOOLEAN
    /\ enable_tasks \in BOOLEAN
    /\ tasks = << >>
    /\ next_id = 1
    /\ pc = "idle"
    /\ session_id = ""
    /\ user_message = [ws |-> 0, nw |-> 0]
    /\ persistent_messages = << >>
    /\ runtime_messages = << >>
    /\ iteration = 0
    /\ result = NoResult
    /\ api_calls = 0
    /\ responses = << >>
    /\ pre_turn = << >>
    /\ turns = 0
    /\ provider_calls = << >>
    /\ tool_call = None
    /\ tool_env = None
    /\ tool_result = None
    /\ tool_runs = 0
    /\ audit_trail = << >>

TasksUntouched ==
    /\ task_op = None
    /\ tasks_before = << >>
    /\ deleted_ids = {}

LoggerIdle ==
    /\ log_calls = << >>
    /\ threads = [t \in Threads |-> [pc |-> "idle", error |-> None]]

Init ==
    /\ Started
    /\ Constructed
    /\ TasksUntouched
    /\ api_logger = ApiLogger(ENABLE_LOGGING)
    /\ LoggerIdle

process_message_begin_eager_session(data, sid, text, now) ==
    LET checked == validate_message(text)
        got == get_or_create_session(data, sid)
        messages == Append(got.session.messages, [role |-> "user", content |-> text])
        added == add_message(got.data, sid, "user", text, EmptyDict)
    IN IF ~checked.is_valid
       THEN [is_valid |-> FALSE, error |-> checked.error, data |-> got.data,
             messages |-> << >>, runtime_messages |-> << >>]
       ELSE [is_valid |-> TRUE, error |-> << >>, data |-> added.data,
             messages |-> messages,
             runtime_messages |-> Append(messages, _build_time_context_message(now))]

process_message_begin_persisting_context(data, sid, text, now) ==
    LET checked == validate_message(text)
        got == get_or_create_session(data, sid)
        messages == Append(got.session.messages, [role |-> "user", content |-> text])
        added == add_message(got.data, sid, "user", text, EmptyDict)
        context == _build_time_context_message(now)
    IN IF ~checked.is_valid
       THEN [is_valid |-> FALSE, error |-> checked.error, data |-> data,
             messages |-> << >>, runtime_messages |-> << >>]
       ELSE [is_valid |-> TRUE, error |-> << >>,
             data |-> add_message(added.data, sid, context.role, context.content,
                                  EmptyDict).data,
             messages |-> messages,
             runtime_messages |-> Append(messages, context)]

(* process_message up to the first call of the completion client: the    *)
(* validation, the session, the user message and the request context.    *)
process_message_begin(data, sid, text, now) ==
    LET checked == validate_message(text)
        got == get_or_create_session(data, sid)
        messages == Append(got.session.messages, [role |-> "user", content |-> text])
        added == add_message(got.data, sid, "user", text, EmptyDict)
    IN IF ~checked.is_valid
       THEN [is_valid |-> FALSE, error |-> checked.error, data |-> data,
             messages |-> << >>, runtime_messages |-> << >>]
       ELSE [is_valid |-> TRUE, error |-> << >>, data |-> added.data,
             messages |-> messages,
             runtime_messages |-> Append(messages, _build_time_context_message(now))]

BeginTurn(sid, text, now) ==
    LET begun == process_message_begin(conversations, sid, text, now)
    IN /\ pc = "idle"
       /\ tool_call = None
       /\ turns < MaxTurns
       /\ turns' = turns + 1
       /\ session_id' = sid
       /\ user_message' = text
       /\ pre_turn' = conversations
       /\ api_calls' = 0
       /\ responses' = << >>
       /\ iteration' = 0
       /\ pc' = IF begun.is_valid THEN "loop" ELSE "returned"
       /\ result' = [response |-> None, error |-> begun.error]
       /\ persistent_messages' = begun.messages
       /\ runtime_messages' = begun.runtime_messages
       /\ conversations' = begun.data
       /\ UNCHANGED << enable_calendar, enable_tasks, tasks, next_id, provider_calls,
                       audit_trail >>
       /\ UNCHANGED << tool_vars, config_vars, task_vars, logger_vars, other_vars >>

(* The calendar service is consulted only by a request that gets as far   *)
(* as the provider; for any other request its behaviour is immaterial.    *)
World == [tasks |-> tasks, next_id |-> next_id, calls |-> << >>, audit |-> << >>]

ConsultsCalendar(tc) ==
    /\ tc.name \in CALENDAR_TOOLS
    /\ _execute_tool(tc, enable_calendar, enable_tasks, World, QuietOracle).w.calls # << >>

ResponseKind(api) ==
    IF ~api.ok THEN [kind |-> "failed", error |-> api.error]
    ELSE IF Len(api.message.tool_calls) # 0 THEN [kind |-> "tool_calls", error |-> ""]
    ELSE IF Truthy(api.message.content) THEN [kind |-> "text", error |-> ""]
    ELSE [kind |-> "empty", error |-> ""]

(* One pass of the loop: the completion call, the assistant message, the  *)
(* tool calls of the response, and the end of the turn when it ends here. *)
LoopPass(api, os) ==
    LET response == get_response(runtime_messages, api)
        st0 == [data |-> conversations,
                persistent |-> persistent_messages,
                runtime |-> runtime_messages,
                w |-> [tasks |-> tasks, next_id |-> next_id, calls |-> << >>,
                       audit |-> response.audit],
                raised |-> FALSE,
                exc |-> None]
        exhausted == iteration + 1 >= max_tool_iterations
        Outcome(st2) ==
            IF st2.raised
            THEN [st |-> st2, pc |-> "returned",
                  result |-> [response |-> None,
                              error |-> IF st2.exc.type = "RuntimeError"
                                        THEN _format_error_message(st2.exc.text)
                                        ELSE UnexpectedError(st2.exc)]]
            ELSE IF Len(response.value.tool_calls) # 0
            THEN (IF exhausted
                  THEN [st |-> st2, pc |-> "returned",
                        result |-> [response |-> None,
                                    error |-> _format_error_message(UnableToComplete)]]
                  ELSE [st |-> st2, pc |-> "loop", result |-> NoResult])
            ELSE IF Truthy(response.value.content)
            THEN [st |-> st2, pc |-> "returned",
                  result |-> [response |-> response.value.content, error |-> << >>]]
            ELSE [st |-> st2, pc |-> "returned",
                  result |-> [response |-> None,
                              error |-> _format_error_message(UnableToComplete)]]
        Tools(st1) ==
            Outcome(IF ~st1.raised /\ Len(response.value.tool_calls) # 0
                    THEN _handle_tool_calls(st1, session_id, response.value.tool_calls,
                                            os, enable_calendar, enable_tasks)
                    ELSE st1)
    IN Tools(AssistantStep(st0, session_id, api))

CompletionStep ==
    /\ pc = "loop"
    /\ \E api \in ApiOutcomes :
         \E os \in IF api.ok /\ ReachesTools([data |-> conversations,
                                              persistent |-> persistent_messages,
                                              runtime |-> runtime_messages,
                                              w |-> None, raised |-> FALSE, exc |-> None],
                                             session_id, api)
                   THEN (IF \E i \in 1..Len(api.message.tool_calls) :
                               ConsultsCalendar(_extract_tool_calls(api.message)[i])
                         THEN [1..Len(api.message.tool_calls) -> Oracles]
                         ELSE { [i \in 1..Len(api.message.tool_calls) |-> QuietOracle] })
                   ELSE { << >> } :
           \E pass \in {LoopPass(api, os)} :
              /\ api_calls' = api_calls + 1
              /\ responses' = Append(responses, ResponseKind(api))
              /\ iteration' = iteration + 1
              /\ conversations' = pass.st.data
              /\ persistent_messages' = pass.st.persistent
              /\ runtime_messages' = pass.st.runtime
              /\ tasks' = pass.st.w.tasks
              /\ next_id' = pass.st.w.next_id
              /\ provider_calls' = pass.st.w.calls
              /\ audit_trail' = pass.st.w.audit
              /\ pc' = pass.pc
              /\ result' = pass.result
    /\ UNCHANGED << enable_calendar, enable_tasks, session_id, user_message,
                    pre_turn, turns >>
    /\ UNCHANGED << tool_vars, config_vars, task_vars, logger_vars, other_vars >>

(* process_message returns: the caller takes (response, error) and the    *)
(* locals of the call are gone; the stored document stays.                *)
ReturnTurn ==
    /\ pc = "returned"
    /\ pc' = "idle"
    /\ session_id' = ""
    /\ user_message' = [ws |-> 0, nw |-> 0]
    /\ persistent_messages' = << >>
    /\ runtime_messages' = << >>
    /\ iteration' = 0
    /\ result' = NoResult
    /\ api_calls' = 0
    /\ responses' = << >>
    /\ pre_turn' = << >>
    /\ provider_calls' = << >>
    /\ audit_trail' = << >>
    /\ UNCHANGED << conversations, enable_calendar, enable_tasks, tasks, next_id, turns >>
    /\ UNCHANGED << tool_vars, config_vars, task_vars, logger_vars, other_vars >>

Next ==
    \/ \E sid \in SessionIds, text \in UserTexts, now \in Clock : BeginTurn(sid, text, now)
    \/ CompletionStep
    \/ ReturnTurn

Spec == Init /\ [][Next]_vars

(* ------------------- tool execution on its own ------------------------ *)
(* _execute_tool applied to one tool request.                             *)
ExecuteTool ==
    /\ pc = "idle"
    /\ tool_call = None
    /\ tool_runs < MaxToolRuns
    /\ \E tc \in ToolRequests :
         \E o \in IF ConsultsCalendar(tc) THEN Oracles ELSE {QuietOracle} :
           \E executed \in {_execute_tool(tc, enable_calendar, enable_tasks, World, o)} :
              /\ tool_call' = tc
              /\ tool_env' = o
              /\ tool_result' = executed.result
              /\ tasks' = executed.w.tasks
              /\ next_id' = executed.w.next_id
              /\ provider_calls' = executed.w.calls
              /\ audit_trail' = executed.w.audit
    /\ tool_runs' = tool_runs + 1
    /\ UNCHANGED << conversations, enable_calendar, enable_tasks >>
    /\ UNCHANGED << turn_vars, config_vars, task_vars, logger_vars, other_vars >>

(* The caller takes the result; the next request starts afresh.           *)
ToolReturn ==
    /\ tool_call # None
    /\ tool_call' = None
    /\ tool_env' = None
    /\ tool_result' = None
    /\ provider_calls' = << >>
    /\ audit_trail' = << >>
    /\ UNCHANGED << conversations, enable_calendar, enable_tasks, tasks, next_id,
                    tool_runs >>
    /\ UNCHANGED << turn_vars, config_vars, task_vars, logger_vars, other_vars >>

NextTools == ExecuteTool \/ ToolReturn

ToolSpec == Init /\ [][NextTools]_vars

(* ----------------------- TaskManager on its own ----------------------- *)
(* The operations of the TaskManager applied to the stored list, with any *)
(* priority and status text.  No more than MaxTasks tasks are created.    *)
TaskIdChoices == { [task |-> i] : i \in 1..(MaxTasks + 1) }
PriorityChoices == {None, Str("HIGH"), Str("urgent")}
StatusChoices == {None, Str("Completed"), Str("done")}

TaskOp(op, task_id, priority, status, outcome) ==
    [op |-> op, task_id |-> task_id, priority |-> priority, status |-> status,
     raised |-> outcome.raised, exc |-> outcome.exc, value |-> outcome.value]

TaskStep(op, task_id, priority, status, outcome) ==
    /\ task_op' = TaskOp(op, task_id, priority, status, outcome)
    /\ tasks_before' = tasks
    /\ tasks' = outcome.w.tasks
    /\ next_id' = outcome.w.next_id
    /\ deleted_ids' = IF op = "delete_task" /\ ~outcome.raised
                      THEN deleted_ids \cup {task_id} ELSE deleted_ids
    /\ UNCHANGED << conversations, enable_calendar, enable_tasks, provider_calls,
                    audit_trail >>
    /\ UNCHANGED << turn_vars, tool_vars, config_vars, logger_vars, other_vars >>

CreateTask ==
    /\ next_id <= MaxTasks
    /\ \E priority \in PriorityChoices :
         TaskStep("create_task", None, priority, None,
                  create_task(Str(" Pay bills "), None, None, priority, World))

UpdateTask ==
    \E task_id \in TaskIdChoices, title \in {None, Str("Renamed")},
       priority \in PriorityChoices, status \in StatusChoices :
         TaskStep("update_task", task_id, priority, status,
                  update_task(task_id, title, None, None, priority, status, World))

CompleteTask ==
    \E task_id \in TaskIdChoices :
         TaskStep("complete_task", task_id, None, None, complete_task(task_id, World))

DeleteTask ==
    \E task_id \in TaskIdChoices :
         TaskStep("delete_task", task_id, None, None, delete_task(task_id, World))

ListTasks ==
    \E status \in {None, Str("Completed")}, priority \in {None, Str("HIGH")} :
         TaskStep("list_tasks", None, priority, status,
                  list_tasks(status, priority, World))

NextTasks == CreateTask \/ UpdateTask \/ CompleteTask \/ DeleteTask \/ ListTasks

(* The TaskManager exists when the task feature is on; the calendar       *)
(* switch has no part in it.                                              *)
TaskInit == Init /\ enable_tasks /\ enable_calendar

TaskSpec == TaskInit /\ [][NextTasks]_vars

(* ----------------------- ApiLogger on its own ------------------------- *)
(* The logger is created enabled or disabled, as ENABLE_LOGGING is set.   *)
LoggerInit ==
    /\ Started
    /\ Constructed
    /\ TasksUntouched
    /\ api_logger \in { ApiLogger(enabled) : enabled \in BOOLEAN }
    /\ LoggerIdle

LoggerFrame ==
    /\ UNCHANGED << conversations, enable_calendar, enable_tasks, tasks, next_id,
                    provider_calls, audit_trail >>
    /\ UNCHANGED << turn_vars, tool_vars, config_vars, task_vars, other_vars >>

(* One caller after another: each log_call runs to its end before the     *)
(* next begins.  log_calls keeps each call and the logger it left.        *)
LogCall ==
    /\ Len(log_calls) < MaxLogCalls
    /\ \E target \in LogTargets, error \in LogErrors :
         \E after \in {log_call(api_logger, target.service, target.action, error, 1)} :
            /\ api_logger' = after
            /\ log_calls' = Append(log_calls,
                                   [service |-> target.service, action |-> target.action,
                                    error |-> error, after |-> after])
    /\ UNCHANGED threads
    /\ LoggerFrame

LoggerSpec == LoggerInit /\ [][LogCall]_vars

(* Request threads calling log_call at the same time: each statement of   *)
(* log_call is a step of its thread.                                      *)
At(t, pc_) == threads[t].pc = pc_
Goto(t, pc_) == threads' = [threads EXCEPT ![t].pc = pc_]

LogCallEnter(t) ==
    /\ At(t, "idle")
    /\ Len(log_calls) < MaxLogCalls
    /\ \E error \in {None, Str("boom")} :
         /\ threads' = [threads EXCEPT ![t] = [pc |-> "entered", error |-> error]]
         /\ log_calls' = Append(log_calls, [by |-> t, error |-> error])
    /\ UNCHANGED api_logger
    /\ LoggerFrame

(* if not self.enabled: if error: self._last_disabled_error = str(error)  *)
(* and, when enabled, the entry is built and serialized.                  *)
LogCallCheckEnabled(t) ==
    /\ At(t, "entered")
    /\ IF ~api_logger.enabled
       THEN IF Truthy(threads[t].error)
            THEN /\ api_logger' = [api_logger EXCEPT
                                     !._last_disabled_error = ErrorStr(threads[t].error)]
                 /\ Goto(t, "error_kept")
            ELSE /\ UNCHANGED api_logger
                 /\ threads' = [threads EXCEPT ![t] = [pc |-> "idle", error |-> None]]
       ELSE /\ UNCHANGED api_logger
            /\ Goto(t, "serialized")
    /\ UNCHANGED log_calls
    /\ LoggerFrame

(* if not self._disabled_warning_emitted: the fallback warning            *)
LogCallWarn(t) ==
    /\ At(t, "error_kept")
    /\ IF ~api_logger._disabled_warning_emitted
       THEN /\ api_logger' = [api_logger EXCEPT
                                !.warnings = Append(@, FallbackWarning(
                                    "openai", "chat.completions.create",
                                    api_logger._last_disabled_error))]
            /\ Goto(t, "warned")
       ELSE /\ UNCHANGED api_logger
            /\ threads' = [threads EXCEPT ![t] = [pc |-> "idle", error |-> None]]
    /\ UNCHANGED log_calls
    /\ LoggerFrame

(* self._disabled_warning_emitted = True; return                          *)
LogCallSetEmitted(t) ==
    /\ At(t, "warned")
    /\ api_logger' = [api_logger EXCEPT !._disabled_warning_emitted = TRUE]
    /\ threads' = [threads EXCEPT ![t] = [pc |-> "idle", error |-> None]]
    /\ UNCHANGED log_calls
    /\ LoggerFrame

(* with self._lock: waits until the lock is free and takes it.            *)
LogCallAcquire_without_waiting(t) ==
    /\ At(t, "serialized")
    /\ api_logger' = [api_logger EXCEPT !._lock = t]
    /\ Goto(t, "locked")
    /\ UNCHANGED log_calls
    /\ LoggerFrame

LogCallAcquire(t) ==
    /\ At(t, "serialized")
    /\ api_logger._lock = 0
    /\ api_logger' = [api_logger EXCEPT !._lock = t]
    /\ Goto(t, "locked")
    /\ UNCHANGED log_calls
    /\ LoggerFrame

(* self._logger.info(serialized): the handler writes the line, then its   *)
(* terminator.                                                            *)
LogCallWrite(t) ==
    /\ \/ /\ At(t, "locked")
          /\ api_logger' = [api_logger EXCEPT
                !.file = Append(@, [by |-> t, piece |-> "line",
                                    entry |-> LogEntry("openai", "chat.completions.create",
                                                       threads[t].error)])]
          /\ Goto(t, "writing")
       \/ /\ At(t, "writing")
          /\ api_logger' = [api_logger EXCEPT
                !.file = Append(@, [by |-> t, piece |-> "terminator",
                                    entry |-> LogEntry("openai", "chat.completions.create",
                                                       threads[t].error)])]
          /\ Goto(t, "written")
    /\ UNCHANGED log_calls
    /\ LoggerFrame

(* Leaving the with block releases the lock; log_call returns.            *)
LogCallRelease(t) ==
    /\ At(t, "written")
    /\ api_logger' = [api_logger EXCEPT !._lock = IF @ = t THEN 0 ELSE @]
    /\ threads' = [threads EXCEPT ![t] = [pc |-> "idle", error |-> None]]
    /\ UNCHANGED log_calls
    /\ LoggerFrame

NextThreads ==
    \E t \in Threads :
       \/ LogCallEnter(t)
       \/ LogCallCheckEnabled(t)
       \/ LogCallWarn(t)
       \/ LogCallSetEmitted(t)
       \/ LogCallAcquire(t)
       \/ LogCallWrite(t)
       \/ LogCallRelease(t)

ThreadedLoggerSpec == LoggerInit /\ [][NextThreads]_vars

(* ---------------- construction of the ConversationManager ------------- *)
(* __init__ from the empty registry: the registration method fills the    *)
(* registry (the one of the class fills it from the feature switches; a   *)
(* replaced one may install any handlers), then the validation runs.      *)
HandlerNames == ToolNames \cup {"rogue_tool"}

ConfigInit ==
    /\ Started
    /\ registry = {}
    /\ construction = None
    /\ TasksUntouched
    /\ api_logger = ApiLogger(ENABLE_LOGGING)
    /\ LoggerIdle

RegisterHandlers ==
    /\ construction = None
    /\ registry' \in SUBSET HandlerNames
    /\ construction' = [registered |-> TRUE]
    /\ UNCHANGED << conversations, enable_calendar, enable_tasks, tasks, next_id,
                    provider_calls, audit_trail >>
    /\ UNCHANGED << turn_vars, tool_vars, task_vars, logger_vars, other_vars >>

ValidateConfiguration ==
    /\ construction = [registered |-> TRUE]
    /\ construction' = _validate_tool_configuration(registry, enable_calendar, enable_tasks)
    /\ UNCHANGED << conversations, enable_calendar, enable_tasks, tasks, next_id,
                    provider_calls, audit_trail, registry >>
    /\ UNCHANGED << turn_vars, tool_vars, task_vars, logger_vars, other_vars >>

NextConfig == RegisterHandlers \/ ValidateConfiguration

ConfigSpec == ConfigInit /\ [][NextConfig]_vars

(* ------------------ ConversationStorage on its own -------------------- *)
(* get_or_create_session and add_message called one after another on the *)
(* conversation document, as the history route and the manager call them. *)
TotalAppended == Len(appended["default"]) + Len(appended["session1"])

StoredEntries ==
    { [role |-> "user", content |-> [ws |-> 0, nw |-> 2]],
      [role |-> "assistant", content |-> Str("Hello")] }

StorageFrame ==
    /\ UNCHANGED << enable_calendar, enable_tasks, tasks, next_id, provider_calls,
                    audit_trail >>
    /\ UNCHANGED << turn_vars, tool_vars, config_vars, task_vars, logger_vars, chat_vars,
                    auth_vars, writer_vars >>

GetOrCreateSession ==
    /\ pc = "idle"
    /\ \E sid \in SessionIds :
         \E got \in {get_or_create_session(conversations, sid)} :
            /\ conversations' = got.data
            /\ storage_op' = [op |-> "get_or_create_session", session_id |-> sid,
                              session |-> got.session, before |-> conversations]
    /\ UNCHANGED appended
    /\ StorageFrame

AddMessage ==
    /\ pc = "idle"
    /\ TotalAppended < MaxAppends
    /\ \E sid \in SessionIds, entry \in StoredEntries :
         \E added \in {add_message(conversations, sid, entry.role, entry.content,
                                   EmptyDict)} :
            /\ conversations' = added.data
            /\ appended' = [appended EXCEPT ![sid] = Append(@, entry)]
            /\ storage_op' = [op |-> "add_message", session_id |-> sid,
                              session |-> None, before |-> conversations]
    /\ StorageFrame

NextStorage == GetOrCreateSession \/ AddMessage

StorageSpec == Init /\ [][NextStorage]_vars

(* Turns and storage operations, one after another, on one document: no  *)
(* more than MaxTurns turns and appends together.                         *)
DocumentBudget == turns + TotalAppended < MaxTurns

(* A text that passes validation and a blank one.                         *)
DocumentTexts == { [ws |-> 0, nw |-> 2], [ws |-> 1, nw |-> 0] }

NextDocument ==
    \/ DocumentBudget /\ GetOrCreateSession
    \/ DocumentBudget /\ AddMessage
    \/ DocumentBudget
          /\ \E sid \in SessionIds, text \in DocumentTexts, now \in Clock :
                BeginTurn(sid, text, now)
    \/ CompletionStep
    \/ ReturnTurn

DocumentSpec == Init /\ [][NextDocument]_vars

(* ------------------------- the /chat handler -------------------------- *)
(* Request threads of the server run chat concurrently; the steps are the *)
(* accesses of the module-level conv_manager.                             *)
ChatFrame ==
    /\ UNCHANGED << conversations, enable_calendar, enable_tasks, tasks, next_id,
                    provider_calls, audit_trail >>
    /\ UNCHANGED << turn_vars, tool_vars, config_vars, task_vars, logger_vars,
                    storage_vars, auth_vars, writer_vars >>

ChatAt(t, pc_) == chat[t].pc = pc_
ChatGoto(t, pc_) == chat' = [chat EXCEPT ![t].pc = pc_]
Respond(t, outcome, response) ==
    /\ answered' = ChatAnswer(chat[t].request, chat[t].manager, outcome, response)
    /\ chat' = [chat EXCEPT ![t] = ChatThread("idle", None, 0, 0)]

(* Lines 49-61: the request is read and refused, or goes on.              *)
ChatReceive(t) ==
    /\ ChatAt(t, "idle")
    /\ requests < MaxRequests
    /\ requests' = requests + 1
    /\ \E request \in ChatRequests :
         LET read == chat_read(request)
         IN IF read.done
            THEN /\ answered' = ChatAnswer(request, 0, NoOutcome, read.response)
                 /\ UNCHANGED chat
            ELSE /\ chat' = [chat EXCEPT ![t] = ChatThread("get_conv_manager", request, 0, 0)]
                 /\ UNCHANGED answered
    /\ UNCHANGED << conv_manager, managers, served >>
    /\ ChatFrame

(* Line 30: if conv_manager is None.                                      *)
GetManagerTest(t) ==
    /\ ChatAt(t, "get_conv_manager")
    /\ ChatGoto(t, IF conv_manager = 0 THEN "construct" ELSE "return")
    /\ UNCHANGED << conv_manager, managers, served, requests, answered >>
    /\ ChatFrame

(* Line 31, right-hand side: ConversationManager() returns a new instance *)
(* or raises, and then chat answers 500 with the holder as it was.        *)
GetManagerConstruct(t) ==
    /\ ChatAt(t, "construct")
    /\ \/ /\ managers' = managers + 1
          /\ chat' = [chat EXCEPT ![t].pc = "assign", ![t].built = managers + 1]
          /\ UNCHANGED answered
       \/ /\ Respond(t, NoOutcome, ServerError(<< "OPENAI_API_KEY is not set." >>))
          /\ UNCHANGED managers
    /\ UNCHANGED << conv_manager, served, requests >>
    /\ ChatFrame

(* Line 31, the assignment to the global.                                 *)
GetManagerAssign(t) ==
    /\ ChatAt(t, "assign")
    /\ conv_manager' = chat[t].built
    /\ chat' = [chat EXCEPT ![t].pc = "return", ![t].built = 0]
    /\ UNCHANGED << managers, served, requests, answered >>
    /\ ChatFrame

(* Line 32: return conv_manager.                                          *)
GetManagerReturn(t) ==
    /\ ChatAt(t, "return")
    /\ chat' = [chat EXCEPT ![t].pc = "process_message", ![t].manager = conv_manager]
    /\ UNCHANGED << conv_manager, managers, served, requests, answered >>
    /\ ChatFrame

(* Lines 64-79: process_message on that instance, then the response.      *)
ChatProcess(t) ==
    /\ ChatAt(t, "process_message")
    /\ \E outcome \in ProcessOutcomes :
         Respond(t, outcome, chat_reply(chat_read(chat[t].request).session_id, outcome))
    /\ served' = served \cup {chat[t].manager}
    /\ UNCHANGED << conv_manager, managers, requests >>
    /\ ChatFrame

NextChat ==
    \E t \in Threads :
       \/ ChatReceive(t)
       \/ GetManagerTest(t)
       \/ GetManagerConstruct(t)
       \/ GetManagerAssign(t)
       \/ GetManagerReturn(t)
       \/ ChatProcess(t)

ChatSpec == Init /\ [][NextChat]_vars

(* --------------------- calendar authentication ------------------------ *)
AuthFrame ==
    /\ UNCHANGED << conversations, enable_calendar, enable_tasks, tasks, next_id,
                    provider_calls, audit_trail >>
    /\ UNCHANGED << turn_vars, tool_vars, config_vars, task_vars, logger_vars,
                    storage_vars, chat_vars, writer_vars >>

(* __init__: the assistant constructs the provider with the default, the  *)
(* authorization helper with allow_interactive_auth=True.                 *)
ConstructProvider ==
    /\ provider = None
    /\ \E allow \in BOOLEAN : provider' = GoogleCalendarProvider(allow)
    /\ UNCHANGED << token_file, auth_op >>
    /\ AuthFrame

EnsureAuthenticated ==
    /\ provider # None
    /\ \E env \in AuthEnvironments :
         \E out \in {ensure_authenticated(provider, token_file, env)} :
            /\ provider' = out.self
            /\ token_file' = out.token_file
            /\ auth_op' = [self |-> provider, token_file |-> token_file, env |-> env,
                           raised |-> out.raised, exc |-> out.exc, creds |-> out.creds,
                           steps |-> out.steps]
    /\ AuthFrame

(* Outside the program: the token file is written by another process or   *)
(* removed by the operator.                                               *)
TokenFileReplaced ==
    /\ \E file \in TokenFiles : token_file' = file
    /\ UNCHANGED << provider, auth_op >>
    /\ AuthFrame

(* Time passes: the access token of the cached credential expires.        *)
CachedTokenExpires ==
    /\ provider # None
    /\ provider._creds # None
    /\ Valid(provider._creds)
    /\ provider' = [provider EXCEPT !._creds.expired = TRUE]
    /\ UNCHANGED << token_file, auth_op >>
    /\ AuthFrame

NextAuth ==
    \/ ConstructProvider
    \/ EnsureAuthenticated
    \/ TokenFileReplaced
    \/ CachedTokenExpires

AuthSpec == Init /\ [][NextAuth]_vars

(* ----------------------- concurrent add_message ----------------------- *)
(* Request threads call add_message on the same file; its steps are the   *)
(* load of the document and the save of the modified copy.                *)
WriterFrame ==
    /\ UNCHANGED << enable_calendar, enable_tasks, tasks, next_id, provider_calls,
                    audit_trail >>
    /\ UNCHANGED << turn_vars, tool_vars, config_vars, task_vars, logger_vars,
                    storage_vars, chat_vars, auth_vars >>

(* The trace keeps the last four steps.                                   *)
Traced(trace, step) ==
    LET all == Append(trace, step)
    IN IF Len(all) > 4 THEN SubSeq(all, Len(all) - 3, Len(all)) ELSE all

(* Line 61: data = self.load_conversations().                             *)
WriterLoad(t) ==
    /\ writers[t].pc = "idle"
    /\ writes < MaxWrites
    /\ writes' = writes + 1
    /\ \E sid \in SessionIds, entry \in StoredEntries :
         writers' = [writers EXCEPT ![t] = Writer("loaded", sid, entry, conversations)]
    /\ write_trace' = Traced(write_trace, [by |-> t, step |-> "load"])
    /\ UNCHANGED conversations
    /\ WriterFrame

WriterSave_reloading(t) ==
    /\ writers[t].pc = "loaded"
    /\ conversations' = add_message(conversations, writers[t].session_id,
                                    writers[t].entry.role, writers[t].entry.content,
                                    EmptyDict).data
    /\ writers' = [writers EXCEPT ![t].pc = "idle"]
    /\ write_trace' = Traced(write_trace, [by |-> t, step |-> "save"])
    /\ UNCHANGED writes
    /\ WriterFrame

(* Lines 63-80: the copy is modified and written over the file.           *)
WriterSave(t) ==
    /\ writers[t].pc = "loaded"
    /\ conversations' = add_message(writers[t].loaded, writers[t].session_id,
                                    writers[t].entry.role, writers[t].entry.content,
                                    EmptyDict).data
    /\ writers' = [writers EXCEPT ![t].pc = "idle"]
    /\ write_trace' = Traced(write_trace, [by |-> t, step |-> "save"])
    /\ UNCHANGED writes
    /\ WriterFrame

NextWriters == \E t \in Threads : WriterLoad(t) \/ WriterSave(t)

WriterSpec == Init /\ [][NextWriters]_vars

(* ======================= properties of a turn ========================= *)
InTurn == pc \in {"loop", "returned"}

(* The text is not blank and no longer than the configured maximum.       *)
PassesValidation(text) == text.nw > 0 /\ text.ws + text.nw <= MAX_MESSAGE_LENGTH

(* The session's transcript when the turn began: the stored one, or the   *)
(* persona message alone for a session that did not exist yet.            *)
Before(sid) ==
    IF SessionIndex(pre_turn, sid) # 0
    THEN StoredMessages(pre_turn, sid)
    ELSE << [role |-> "system", content |-> SYSTEM_PROMPT] >>

Stored(sid) == StoredMessages(conversations, sid)

IsPrefix(p, q) == Len(p) <= Len(q) /\ SubSeq(q, 1, Len(p)) = p

Drop(q, n) == SubSeq(q, n + 1, Len(q))

RoleAndContent(q) == [ i \in 1..Len(q) |-> [role |-> q[i].role, content |-> q[i].content] ]

IsTimeContext(m) == m.role = "system" /\ "reference" \in DOMAIN m.content

UserEntry == [role |-> "user", content |-> user_message]

UserEntryStored ==
    /\ Len(Stored(session_id)) > Len(Before(session_id))
    /\ IsPrefix(Before(session_id), Stored(session_id))
    /\ Stored(session_id)[Len(Before(session_id)) + 1] = UserEntry

LastResponse == responses[Len(responses)]

CompletionFailed == pc = "returned" /\ responses # << >> /\ LastResponse.kind = "failed"

(* C1: in every turn whose text passes validation the stored transcript   *)
(* of the session holds the user message, right after what it held when   *)
(* the turn began, from before the first completion call (api_calls = 0)  *)
(* onwards and whatever the completion calls of the turn do.              *)
C1_UserMessagePersistedFirst ==
    (InTurn /\ PassesValidation(user_message)) => UserEntryStored

C1_Witness ==
    /\ CompletionFailed
    /\ api_calls = 1
    /\ PassesValidation(user_message)
    /\ UserEntryStored

(* C2: at every point of a turn the messages the turn has added to the    *)
(* stored transcript are, in order, the messages it has added to the      *)
(* in-flight context, the time-context message left out.                  *)
C2_PersistedFollowsContext ==
    (InTurn /\ PassesValidation(user_message)) =>
        RoleAndContent(Drop(Stored(session_id), Len(Before(session_id))))
          = RoleAndContent(SelectSeq(Drop(runtime_messages, Len(Before(session_id))),
                                     LAMBDA m : ~IsTimeContext(m)))

(* C3: every tool call listed by a response of the turn is answered by a  *)
(* tool message carrying its identifier and name, in the in-flight        *)
(* context and, with those fields kept, in the stored transcript.         *)
AnswersCall(m, call) ==
    /\ m.role = "tool"
    /\ "tool_call_id" \in DOMAIN m /\ m.tool_call_id = call.id
    /\ "name" \in DOMAIN m /\ m.name = call.function.name
    /\ "json" \in DOMAIN m.content

C3_ToolMessagesRecorded ==
    pc = "returned" =>
        \A i \in 1..Len(runtime_messages) :
            "tool_calls" \in DOMAIN runtime_messages[i] =>
                \A k \in 1..Len(runtime_messages[i].tool_calls) :
                    /\ \E j \in 1..Len(runtime_messages) :
                          AnswersCall(runtime_messages[j], runtime_messages[i].tool_calls[k])
                    /\ \E j \in 1..Len(Stored(session_id)) :
                          AnswersCall(Stored(session_id)[j],
                                      runtime_messages[i].tool_calls[k])

(* C4: a turn makes at most 3 completion calls, ends with a response or   *)
(* an error, and a turn whose responses all carried tool calls ends only  *)
(* when the third of them has been handled, with the 'Unable to complete' *)
(* error and no response.                                                 *)
OnlyToolCallResponses ==
    responses # << >> /\ \A i \in 1..Len(responses) : responses[i].kind = "tool_calls"

C4_BoundedToolLoop ==
    /\ api_calls <= 3
    /\ pc = "returned" => (result.response # None \/ result.error # << >>)
    /\ (pc = "returned" /\ OnlyToolCallResponses) =>
          /\ Len(responses) = 3
          /\ result = [response |-> None, error |-> UnableToComplete]

(* C5: a response that lists a tool call whose handler raises does not    *)
(* end the turn: every call it lists is answered in the in-flight context *)
(* and, unless it was the third response, another completion call follows.*)
HandlerRaises(call) ==
    LET request == [id |-> call.id, name |-> call.function.name,
                    arguments |-> IF "json" \in DOMAIN call.function.arguments
                                  THEN call.function.arguments.json ELSE EmptyDict]
    IN /\ request.name \in DOMAIN tool_handlers(enable_calendar, enable_tasks)
       /\ CallHandler(tool_handlers(enable_calendar, enable_tasks)[request.name],
                      request.arguments,
                      [tasks |-> tasks, next_id |-> next_id, calls |-> << >>, audit |-> << >>],
                      QuietOracle).raised

AssistantMessages ==
    SelectSeq(Drop(runtime_messages, Len(Before(session_id))),
              LAMBDA m : m.role = "assistant")

C5_ToolFailureKeepsTurn ==
    (pc = "returned" /\ PassesValidation(user_message)) =>
        \A n \in 1..Len(AssistantMessages) :
            ("tool_calls" \in DOMAIN AssistantMessages[n]
             /\ \E k \in 1..Len(AssistantMessages[n].tool_calls) :
                   HandlerRaises(AssistantMessages[n].tool_calls[k]))
            => /\ \A k \in 1..Len(AssistantMessages[n].tool_calls) :
                    \E j \in 1..Len(runtime_messages) :
                       AnswersCall(runtime_messages[j], AssistantMessages[n].tool_calls[k])
               /\ (n < 3 => api_calls > n)

(* C6: when a completion call fails, the turn returns no response and an  *)
(* error containing the service's error text; every session stored before *)
(* the turn is still there with its messages as a prefix, other sessions  *)
(* are untouched, and what the turn added starts with its user message    *)
(* and is otherwise what earlier iterations persisted.                    *)
C6_FailedCallKeepsHistory ==
    CompletionFailed =>
        /\ result.response = None
        /\ Contains(result.error, LastResponse.error)
        /\ \A i \in 1..Len(pre_turn) :
              /\ SessionIndex(conversations, pre_turn[i].session_id) # 0
              /\ IsPrefix(pre_turn[i].messages, Stored(pre_turn[i].session_id))
              /\ pre_turn[i].session_id # session_id =>
                    Stored(pre_turn[i].session_id) = pre_turn[i].messages
        /\ UserEntryStored
        /\ IsPrefix(RoleAndContent(Drop(Stored(session_id), Len(Before(session_id)))),
                    RoleAndContent(Drop(persistent_messages, Len(Before(session_id)))))

C6_Witness ==
    /\ CompletionFailed
    /\ Len(pre_turn) >= 1
    /\ Len(StoredMessages(pre_turn, session_id)) >= 3
    /\ Contains(result.error, "Rate limit reached")

(* C7: a turn whose text fails validation returns no response and the     *)
(* validation error, leaves the stored document exactly as it was (no     *)
(* session created, no message appended) and calls the completion client  *)
(* not at all.                                                            *)
C7_InvalidTextNoEffect ==
    (InTurn /\ ~PassesValidation(user_message)) =>
        /\ pc = "returned"
        /\ result.response = None
        /\ result.error # << >>
        /\ conversations = pre_turn
        /\ api_calls = 0
        /\ runtime_messages = << >>

C7_Witness ==
    /\ pc = "returned"
    /\ ~PassesValidation(user_message)
    /\ SessionIndex(conversations, session_id) = 0
    /\ Len(conversations) = 1

(* C8: a text is accepted exactly when it is not blank and at most        *)
(* MAX_MESSAGE_LENGTH long; a blank text is refused with the 'empty'      *)
(* error and a longer one with an error naming the maximum.               *)
Accepted == pc = "loop" \/ api_calls >= 1

C8_ValidationBoundary ==
    InTurn =>
        /\ Accepted <=> PassesValidation(user_message)
        /\ (~Accepted /\ user_message.nw = 0) => Contains(result.error, "empty")
        /\ (~Accepted /\ user_message.nw > 0) =>
              /\ user_message.ws + user_message.nw > MAX_MESSAGE_LENGTH
              /\ Contains(result.error, ToString(MAX_MESSAGE_LENGTH))
              /\ ~Contains(result.error, "empty")

C8_Witness ==
    /\ pc = "loop"
    /\ user_message.ws + user_message.nw = MAX_MESSAGE_LENGTH
    /\ user_message.ws > 0

(* C9: no stored transcript holds a time-context message; the only system *)
(* message of a stored session is the persona prompt, at its head.        *)
C9_TimeContextNeverStored ==
    \A i \in 1..Len(conversations) :
        \A j \in 1..Len(conversations[i].messages) :
            LET m == conversations[i].messages[j]
            IN /\ ~IsTimeContext(m)
               /\ m.role = "system" <=> j = 1
               /\ m.role = "system" => m.content = SYSTEM_PROMPT

C9_Witness ==
    /\ pc = "returned"
    /\ result.response # None
    /\ \E j \in 1..Len(runtime_messages) : IsTimeContext(runtime_messages[j])
    /\ Len(Stored(session_id)) >= 5

(* ===================== properties of a tool call ====================== *)
(* The handlers that take time arguments, with the arguments they insist  *)
(* on before they look at the times.                                      *)
GatedTools ==
    {"check_calendar_status", "create_calendar_event", "update_calendar_event",
     "create_task", "update_task"}

RequiredTimes(name) ==
    IF name \in {"check_calendar_status", "create_calendar_event"}
    THEN {"start_time", "end_time"} ELSE {}

TimeFields(name) ==
    IF name \in {"create_task", "update_task"} THEN {"due_date"}
    ELSE {"start_time", "end_time"}

OwnArguments(name) ==
    CASE name = "create_calendar_event" -> {"summary"}
      [] name = "update_calendar_event" -> {"event_id"}
      [] name = "create_task" -> {"title"}
      [] name = "update_task" -> {"task_id"}
      [] OTHER -> {}

Present(arguments, field) == Get(arguments, field) \notin {None, Str("")}

Resolved(arguments, field) == resolve_time_reference(arguments[field], tool_env.today)

FieldClear(arguments, field) ==
    /\ Resolved(arguments, field).iso # None
    /\ Resolved(arguments, field).confidence >= DATE_CONFIDENCE_THRESHOLD
    /\ Resolved(arguments, field).iso.hour < LATE_HOUR_THRESHOLD

TimesClear(tc) ==
    /\ \A f \in RequiredTimes(tc.name) : Present(tc.arguments, f)
    /\ \A f \in TimeFields(tc.name) : Present(tc.arguments, f) => FieldClear(tc.arguments, f)

OwnArgumentsGiven(tc) == \A f \in OwnArguments(tc.name) : Truthy(Get(tc.arguments, f))

GatedCall ==
    /\ tool_call # None
    /\ tool_call.name \in GatedTools
    /\ tool_call.name \in DOMAIN tool_handlers(enable_calendar, enable_tasks)

ConfirmationRequired ==
    /\ tool_result.success
    /\ "error" \in DOMAIN tool_result.result
    /\ tool_result.result.error = "DATE_CONFIRMATION_REQUIRED"

LateAtFullConfidence(tc) ==
    \E f \in TimeFields(tc.name) :
        /\ Present(tc.arguments, f)
        /\ Resolved(tc.arguments, f).iso # None
        /\ Resolved(tc.arguments, f).confidence = 100
        /\ Resolved(tc.arguments, f).iso.hour >= LATE_HOUR_THRESHOLD

(* C10, as stated: a handler with time arguments reaches the provider or  *)
(* the task manager only if the times clear the gate, and otherwise       *)
(* returns the DATE_CONFIRMATION_REQUIRED payload without acting.         *)
C10_GateAsStated ==
    GatedCall =>
        /\ provider_calls # << >> => TimesClear(tool_call)
        /\ ~TimesClear(tool_call) => (ConfirmationRequired /\ provider_calls = << >>)

(* C10: a handler with time arguments reaches the provider or the task    *)
(* manager only if its own required argument is given and every required  *)
(* time is present and every present time resolves with confidence at     *)
(* least 0.98 to an hour before 21; when its own argument is given and    *)
(* the times do not clear, it returns the DATE_CONFIRMATION_REQUIRED      *)
(* payload without acting (so also for a time at 21:00 or later resolved  *)
(* at confidence 1.0); when its own argument is missing it fails without  *)
(* acting.                                                                *)
C10_DateGate ==
    GatedCall =>
        /\ provider_calls # << >> => (TimesClear(tool_call) /\ OwnArgumentsGiven(tool_call))
        /\ (OwnArgumentsGiven(tool_call) /\ ~TimesClear(tool_call)) =>
              (ConfirmationRequired /\ provider_calls = << >>)
        /\ (OwnArgumentsGiven(tool_call) /\ LateAtFullConfidence(tool_call)) =>
              (ConfirmationRequired /\ provider_calls = << >>)
        /\ ~OwnArgumentsGiven(tool_call) =>
              (~tool_result.success /\ provider_calls = << >>)
        /\ (OwnArgumentsGiven(tool_call) /\ TimesClear(tool_call)) =>
              (provider_calls # << >> /\ ~ConfirmationRequired)

C10_Witness ==
    /\ GatedCall
    /\ tool_call.name = "create_calendar_event"
    /\ TimesClear(tool_call)
    /\ \E i \in 1..Len(provider_calls) : provider_calls[i].op = "create_event"

(* ================== properties of the tool handlers =================== *)
CreateEventCall ==
    /\ tool_call # None
    /\ tool_call.name = "create_calendar_event"
    /\ enable_calendar

CallsOf(op) == { i \in 1..Len(provider_calls) : provider_calls[i].op = op }

ConflictResult ==
    /\ tool_result.success
    /\ "created" \in DOMAIN tool_result.result
    /\ ~tool_result.result.created
    /\ "message" \in DOMAIN tool_result.result
    /\ tool_result.result.message = "Timeslot is unavailable."

(* The window query of the handler was answered by the calendar service.  *)
WindowListed ==
    /\ provider_calls # << >>
    /\ provider_calls[1].op = "list_events_in_range"
    /\ provider_calls[1].ok

(* C11: the create-event handler queries the window before anything else; *)
(* when the query returns any event the result is created = false with    *)
(* the message "Timeslot is unavailable." and the provider's create       *)
(* operation is not called; when the call passes the gate and the query   *)
(* returns no event the create operation is called exactly once, after    *)
(* the query.                                                             *)
C11_ConflictRecheck ==
    CreateEventCall =>
        /\ provider_calls # << >> => provider_calls[1].op = "list_events_in_range"
        /\ (WindowListed /\ tool_env.events # << >>) =>
              /\ ConflictResult
              /\ tool_result.result.conflicts = ToDicts(tool_env.events)
        /\ ConflictResult => CallsOf("create_event") = {}
        /\ (WindowListed /\ tool_env.events = << >>) => CallsOf("create_event") = {2}
        /\ (OwnArgumentsGiven(tool_call) /\ TimesClear(tool_call)) => provider_calls # << >>

C11_Witness ==
    /\ CreateEventCall
    /\ ConflictResult
    /\ WindowListed
    /\ tool_env.events # << >>

WriteOps == {"create_event", "update_event", "delete_event"}

(* The calendar service performed the create, update or delete request.   *)
WritePerformed ==
    /\ tool_call # None
    /\ \E i \in 1..Len(provider_calls) :
          provider_calls[i].op \in WriteOps /\ provider_calls[i].ok

(* C12: once the provider's create, update or delete operation has        *)
(* succeeded, the tool call returns a success result, whatever the        *)
(* read-back of the event gives.                                          *)
C12_ReadBackAbsentSafe ==
    WritePerformed => tool_result.success

(* The tool asked for belongs to a feature that is switched off.          *)
DisabledCall ==
    /\ tool_call # None
    /\ \/ tool_call.name \in CALENDAR_TOOLS /\ ~enable_calendar
       \/ tool_call.name \in TASK_TOOLS /\ ~enable_tasks

DisabledMessage(name) ==
    IF name \in CALENDAR_TOOLS
    THEN "Calendar features are disabled for this Jarvis instance."
    ELSE "Task management is disabled for this Jarvis instance."

(* C13: executing a tool of a disabled feature returns the failure result *)
(* carrying that feature's fixed message, and no provider or task-manager *)
(* operation is called, no outbound request made and no task stored.      *)
C13_DisabledToolRefused ==
    DisabledCall =>
        /\ tool_result = [success |-> FALSE,
                          error |-> << DisabledMessage(tool_call.name) >>]
        /\ provider_calls = << >>
        /\ audit_trail = << >>

C13_Witness ==
    /\ DisabledCall
    /\ tool_call.name = "create_task"
    /\ Truthy(Get(tool_call.arguments, "title"))
    /\ ~tool_result.success

(* ==================== properties of construction ===================== *)
Validated == "raised" \in DOMAIN construction

(* The tool names declared by the schemas of the enabled features.        *)
Declared ==
    { n \in CALENDAR_TOOLS : enable_calendar } \cup { n \in TASK_TOOLS : enable_tasks }

Ran(ops) == task_op # None /\ task_op.op \in ops

KnownBefore(task_id) == \E i \in 1..Len(tasks_before) : tasks_before[i].id = task_id

(* C15: every stored task has priority low, normal or high and status     *)
(* pending or completed; create_task never fails, appends the task it     *)
(* returns, with status pending; and create_task and update_task store    *)
(* the priority "HIGH" as high and the unrecognized "urgent" as normal.   *)
C15_TaskFieldsValid ==
    /\ \A i \in 1..Len(tasks) :
          /\ tasks[i].priority \in {Str("low"), Str("normal"), Str("high")}
          /\ tasks[i].status \in {Str("pending"), Str("completed")}
    /\ Ran({"create_task"}) =>
          /\ ~task_op.raised
          /\ tasks = Append(tasks_before, task_op.value)
          /\ task_op.value.status = Str("pending")
    /\ (Ran({"create_task", "update_task"}) /\ ~task_op.raised
          /\ task_op.priority # None) =>
          task_op.value.priority
             = IF task_op.priority = Str("HIGH") THEN Str("high") ELSE Str("normal")

C15_Witness ==
    /\ Ran({"update_task"})
    /\ ~task_op.raised
    /\ task_op.priority = Str("urgent")
    /\ \E i \in 1..Len(tasks) :
          /\ tasks[i].id = task_op.task_id
          /\ tasks_before[i].priority = Str("high")
          /\ tasks[i].priority = Str("normal")

(* C16: an operation that fails leaves the stored list as it was; update, *)
(* complete and delete of an identifier that matches no task fail with    *)
(* the not-found error, and update of a stored task with a status other   *)
(* than pending or completed (any letter case) fails with the             *)
(* unsupported-status error, whatever other fields the call supplies.     *)
C16_FailedOperationKeepsList ==
    /\ (task_op # None /\ task_op.raised) => tasks = tasks_before
    /\ (Ran({"update_task", "complete_task", "delete_task"})
          /\ ~KnownBefore(task_op.task_id)) =>
          /\ task_op.raised
          /\ task_op.exc.type = "ValueError"
          /\ Contains(task_op.exc.text, "was not found.")
    /\ (Ran({"update_task"}) /\ KnownBefore(task_op.task_id)
          /\ task_op.status = Str("done")) =>
          /\ task_op.raised
          /\ task_op.exc.type = "ValueError"
          /\ Contains(task_op.exc.text, "Unsupported status")

C16_Witness ==
    /\ Ran({"update_task"})
    /\ task_op.raised
    /\ task_op.status = Str("done")
    /\ task_op.priority = Str("HIGH")
    /\ \E i \in 1..Len(tasks_before) :
          /\ tasks_before[i].id = task_op.task_id
          /\ tasks_before[i].priority = Str("normal")
          /\ tasks[i].priority = Str("normal")

ErrorCalls == { k \in 1..Len(log_calls) : Truthy(log_calls[k].error) }

FirstOf(S) == CHOOSE k \in S : \A j \in S : k <= j
LastOf(S) == CHOOSE k \in S : \A j \in S : k >= j

LoggerBefore(k) == IF k = 1 THEN ApiLogger(api_logger.enabled) ELSE log_calls[k - 1].after

(* C18: with logging disabled, after any sequence of log_call calls there *)
(* is one fallback warning if some call supplied a (non-empty) error text *)
(* and none otherwise, the warning was emitted by the first such call and *)
(* carries its service, action and error, last_disabled_error is the      *)
(* error text of the latest such call, and a call without an error text   *)
(* leaves the logger as it was; with logging enabled there is never a     *)
(* fallback warning.                                                      *)
C18_SingleFallbackWarning ==
    /\ api_logger.enabled => api_logger.warnings = << >>
    /\ ~api_logger.enabled =>
          /\ Len(api_logger.warnings) = IF ErrorCalls = {} THEN 0 ELSE 1
          /\ \A k \in 1..Len(log_calls) :
                /\ Len(log_calls[k].after.warnings)
                      = IF \E j \in ErrorCalls : j <= k THEN 1 ELSE 0
                /\ ~Truthy(log_calls[k].error) => log_calls[k].after = LoggerBefore(k)
          /\ ErrorCalls # {} =>
                /\ api_logger.warnings[1]
                      = FallbackWarning(log_calls[FirstOf(ErrorCalls)].service,
                                        log_calls[FirstOf(ErrorCalls)].action,
                                        log_calls[FirstOf(ErrorCalls)].error)
                /\ last_disabled_error(api_logger) = log_calls[LastOf(ErrorCalls)].error
          /\ ErrorCalls = {} => last_disabled_error(api_logger) = None

C18_Witness ==
    /\ ~api_logger.enabled
    /\ Len(log_calls) = 3
    /\ log_calls[1].error = None
    /\ log_calls[2].error = Str("boom")
    /\ log_calls[3].error = Str("bang")
    /\ Len(api_logger.warnings) = 1
    /\ last_disabled_error(api_logger) = Str("bang")

InLockedSection(t) == threads[t].pc \in {"locked", "writing", "written"}

(* C19: at most one thread is between taking the lock and releasing it,   *)
(* that thread holds the lock, and in the log file every line is followed *)
(* at once by its own terminator (or is the last piece, its writer still  *)
(* writing): the records of concurrent calls do not interleave.           *)
C19_RecordsNeverInterleave ==
    /\ \A t, u \in Threads : (InLockedSection(t) /\ InLockedSection(u)) => t = u
    /\ \A t \in Threads : InLockedSection(t) => api_logger._lock = t
    /\ \A i \in 1..Len(api_logger.file) :
          IF api_logger.file[i].piece = "line"
          THEN IF i < Len(api_logger.file)
               THEN api_logger.file[i + 1]
                      = [api_logger.file[i] EXCEPT !.piece = "terminator"]
               ELSE threads[api_logger.file[i].by].pc = "writing"
          ELSE /\ i > 1
               /\ api_logger.file[i - 1] = [api_logger.file[i] EXCEPT !.piece = "line"]

C19_Witness ==
    /\ api_logger.enabled
    /\ threads[1].pc = "writing"
    /\ threads[2].pc = "serialized"
    /\ Len(api_logger.file) = 3
    /\ api_logger.file[1].by = 2

(* ================= properties of the outbound calls =================== *)
Attempts == { i \in 1..Len(audit_trail) : audit_trail[i].kind = "attempt" }
LogCalls == { i \in 1..Len(audit_trail) : audit_trail[i].kind = "log_call" }

(* C20: every request sent to an external service is followed at once by  *)
(* one log_call for the same service and action, carrying an error text   *)
(* exactly when the request failed, and there is no other log_call; and a *)
(* failed calendar request reaches the caller as the uniform "Google      *)
(* Calendar API error" failure.                                           *)
C20_EveryCallLoggedOnce ==
    /\ \A i \in Attempts :
          /\ i < Len(audit_trail)
          /\ audit_trail[i + 1] = [audit_trail[i] EXCEPT !.kind = "log_call"]
    /\ \A i \in LogCalls : i > 1 /\ (i - 1) \in Attempts
    /\ (tool_call # None /\ \E i \in Attempts : audit_trail[i].error # << >>) =>
          /\ ~tool_result.success
          /\ Contains(tool_result.error, "Google Calendar API error:")

(* ================ properties of the conversation store ================ *)
Persona == [role |-> "system", content |-> SYSTEM_PROMPT]

SessionsOf(data, sid) == { i \in 1..Len(data) : data[i].session_id = sid }

(* C21: the document holds at most one session per identifier; a session  *)
(* exists once it has been obtained or appended to, and its messages are  *)
(* the persona message followed by exactly the messages appended to it,   *)
(* in order (so n appended messages give n + 1); get_or_create_session    *)
(* returns the stored session, which for an unseen identifier holds the   *)
(* persona message alone, and leaves a document that already has the      *)
(* session as it was.                                                     *)
C21_SessionShape ==
    /\ \A sid \in SessionIds :
          /\ Cardinality(SessionsOf(conversations, sid)) <= 1
          /\ appended[sid] # << >> => SessionsOf(conversations, sid) # {}
          /\ \A i \in SessionsOf(conversations, sid) :
                /\ conversations[i].messages = << Persona >> \o appended[sid]
                /\ Len(conversations[i].messages) = Len(appended[sid]) + 1
    /\ (storage_op # None /\ storage_op.op = "get_or_create_session") =>
          /\ storage_op.session.messages = StoredMessages(conversations,
                                                          storage_op.session_id)
          /\ SessionsOf(storage_op.before, storage_op.session_id) = {} =>
                storage_op.session.messages = << Persona >>
          /\ SessionsOf(storage_op.before, storage_op.session_id) # {} =>
                conversations = storage_op.before

C21_Witness ==
    /\ storage_op # None
    /\ storage_op.op = "get_or_create_session"
    /\ storage_op.session_id = "session1"
    /\ SessionsOf(storage_op.before, "session1") # {}
    /\ Len(appended["session1"]) = 2
    /\ Len(storage_op.session.messages) = 3
    /\ Len(conversations) = 2

Changed(i) ==
    IF i <= Len(conversations)
    THEN conversations'[i].messages # conversations[i].messages
    ELSE TRUE

(* C22: in every step (a storage operation or a step of a turn) every     *)
(* session of the document stays, in its place and under its identifier,  *)
(* its messages before the step are a prefix of its messages after it,    *)
(* and at most one session is appended to or created.                     *)
C22_AppendOnly ==
    [][ /\ Len(conversations) <= Len(conversations')
        /\ \A i \in 1..Len(conversations) :
              /\ conversations'[i].session_id = conversations[i].session_id
              /\ IsPrefix(conversations[i].messages, conversations'[i].messages)
        /\ Cardinality({ i \in 1..Len(conversations') : Changed(i) }) <= 1 ]_vars

C22_Witness ==
    /\ Len(conversations) = 2
    /\ turns >= 1
    /\ pc = "returned"
    /\ storage_op # None
    /\ storage_op.op = "add_message"
    /\ Len(Stored("default")) >= 3
    /\ Len(Stored("session1")) = 2

(* C23: the ConversationManager of the HTTP entry point is constructed    *)
(* lazily and reused: over any interleaving of chat requests at most one  *)
(* instance is ever constructed, every request is processed by that same  *)
(* instance, and a failed construction leaves the holder empty.           *)
C23_SingleManager ==
    /\ managers <= 1
    /\ Cardinality(served) <= 1
    /\ (managers = 0 => conv_manager = 0)

(* C24: every response of POST /chat is {response, session_id} with 200   *)
(* or {error} with 400 or 500: 400 for a body not declared JSON, an empty *)
(* JSON value, a blank or missing message and an error returned by        *)
(* process_message; 500 for an exception; 200 exactly when                *)
(* process_message returned no error, with the request's session_id       *)
(* ('default' when the request has none).                                 *)
Processed24 == answered.manager # 0
BlankOrMissing(message) ==
    message = Absent \/ (IsText(message) /\ message.nw = 0)

C24_ChatResponses ==
    answered # None =>
       LET request == answered.request
           data == request.data
           response == answered.response
           outcome == answered.outcome
           returned_ok == Processed24 /\ ~outcome.raised /\ outcome.error = << >>
       IN /\ response.status \in {200, 400, 500}
          /\ response.status = 200 => DOMAIN response.body = {"response", "session_id"}
          /\ response.status # 200 =>
                /\ DOMAIN response.body = {"error"}
                /\ Len(response.body.error) > 0
          /\ ~request.is_json => response.status = 400
          /\ request.is_json /\ NotData(data) => response.status = 400
          /\ request.is_json /\ IsObject(data) /\ ~NotData(data)
                /\ BlankOrMissing(data.message) => response.status = 400
          /\ Processed24 /\ ~outcome.raised /\ outcome.error # << >> =>
                /\ response.status = 400
                /\ response.body.error = outcome.error
          /\ Processed24 /\ outcome.raised => response.status = 500
          /\ request.is_json /\ (data = Malformed \/ data = JsonList(1)) =>
                response.status = 500
          /\ request.is_json /\ IsObject(data) /\ data.message # Absent
                /\ ~IsText(data.message) => response.status = 500
          /\ response.status = 200 <=> returned_ok
          /\ returned_ok =>
                /\ response.body.response = outcome.response
                /\ response.body.session_id =
                      (IF data.session_id = Absent THEN Str("default")
                       ELSE data.session_id)

(* The second request is answered 200 and named no session, while         *)
(* another request is still being handled.                                *)
C24_Witness ==
    /\ requests = 2
    /\ answered # None
    /\ answered.response.status = 200
    /\ answered.request.data.session_id = Absent
    /\ answered.response.body.session_id = Str("default")
    /\ \E t \in Threads : chat[t].pc = "process_message"

(* C25: a provider constructed with interactive authorization disabled    *)
(* never starts the consent flow and never writes the token file;         *)
(* ensure_authenticated returns a valid credential or fails with the      *)
(* error that tells the operator to run the authorization helper, and the *)
(* credential it caches is valid.                                         *)
Took(step) == \E i \in 1..Len(auth_op.steps) : auth_op.steps[i] = step

C25_NonInteractive ==
    auth_op # None /\ ~auth_op.self.allow_interactive_auth =>
       /\ ~Took("flow")
       /\ ~Took("save")
       /\ \/ ~auth_op.raised /\ Valid(auth_op.creds)
          \/ auth_op.raised /\ auth_op.exc = [type |-> "RuntimeError", text |-> AuthHelp]

(* C26: a loaded credential that is expired and has a refresh token is    *)
(* refreshed; if the credential is still invalid after that and           *)
(* interactive authorization is permitted, the consent flow runs and its  *)
(* token is saved; with interactive authorization permitted the operation *)
(* fails only when the client-credentials file is missing or the flow     *)
(* gives no valid credential.                                             *)
C26_RefreshThenInteractive ==
    auth_op # None /\ auth_op.self.allow_interactive_auth =>
       LET loaded == auth_op.token_file
           env == auth_op.env
       IN /\ Took("load") /\ loaded # Unreadable /\ loaded.expired /\ loaded.refresh_token =>
                Took("refresh")
          /\ Took("flow") /\ ~auth_op.raised => Took("save")
          /\ auth_op.raised =>
                \/ ~env.credentials_file
                \/ env.flow = FlowRaises
                \/ ~Valid(env.flow)

(* C27: two add_message calls running as load, load, save, save lose an   *)
(* update: after the second save the document is the one the second       *)
(* writer loaded plus its own message, and the message the first writer   *)
(* saved is not in it.                                                    *)
RECURSIVE MessagesUpTo(_, _)
MessagesUpTo(data, n) ==
    IF n = 0 THEN 0 ELSE Len(data[n].messages) + MessagesUpTo(data, n - 1)
TotalMessages(data) == MessagesUpTo(data, Len(data))

LostUpdateOrder(a, b) ==
    /\ a # b
    /\ write_trace =
          << [by |-> a, step |-> "load"], [by |-> b, step |-> "load"],
             [by |-> a, step |-> "save"], [by |-> b, step |-> "save"] >>

Written(data, w) == add_message(data, w.session_id, w.entry.role, w.entry.content, EmptyDict).data

C27_LostUpdate ==
    \A a, b \in Threads :
       LostUpdateOrder(a, b) =>
          /\ writers[a].loaded = writers[b].loaded
          /\ conversations = Written(writers[b].loaded, writers[b])
          /\ conversations # Written(Written(writers[a].loaded, writers[a]), writers[b])
          /\ TotalMessages(conversations)
                < TotalMessages(Written(Written(writers[a].loaded, writers[a]), writers[b]))
          /\ writers[a].entry # writers[b].entry =>
                \A i \in 1..Len(conversations) :
                   conversations[i].session_id = writers[a].session_id =>
                      \A j \in (Len(StoredMessages(writers[a].loaded, writers[a].session_id)) + 1)
                                 ..Len(conversations[i].messages) :
                         conversations[i].messages[j] # writers[a].entry

(* Both writers append to a session that already holds a message, and the *)
(* first writer's message is gone.                                        *)
C27_Witness ==
    /\ LostUpdateOrder(1, 2)
    /\ writers[1].session_id = "default"
    /\ writers[2].session_id = "default"
    /\ writers[1].entry # writers[2].entry
    /\ Len(StoredMessages(writers[1].loaded, "default")) = 2
    /\ Len(Stored("default")) = 3

(* C28: a completion response with neither text nor tool calls ends the   *)
(* turn at once: its assistant message is persisted, no further           *)
(* completion call is made in the turn even when iterations remain, and   *)
(* the turn returns the 'Unable to complete the response after handling   *)
(* tool calls' error.                                                     *)
EmptyAnswer(m) ==
    /\ m.role = "assistant"
    /\ m.content \in {None, Str("")}
    /\ "tool_calls" \notin DOMAIN m

ThisTurn == (Len(Before(session_id)) + 2)..Len(persistent_messages)

C28_EmptyResponseEndsTurn ==
    \A i \in ThisTurn :
       EmptyAnswer(persistent_messages[i]) =>
          /\ i = Len(persistent_messages)
          /\ pc = "returned"
          /\ Len(responses) = api_calls
          /\ responses[api_calls].kind = "empty"
          /\ result.response = None
          /\ result.error = << "Unable to complete the response after handling tool calls.",
                               "Please try again." >>
          /\ Len(Stored(session_id)) = Len(persistent_messages)
          /\ RoleAndContent(Stored(session_id))[i] =
                [role |-> "assistant", content |-> persistent_messages[i].content]

(* The first response of a turn is empty, with iterations remaining.      *)
C28_Witness ==
    /\ pc = "returned"
    /\ api_calls = 1
    /\ iteration < max_tool_iterations
    /\ ThisTurn # {}
    /\ EmptyAnswer(persistent_messages[Len(persistent_messages)])
    /\ persistent_messages[Len(persistent_messages)].content = Str("")
    /\ result.error = UnableToComplete

(* ====================== relative time expressions ===================== *)
(* Texts naming each relative keyword, alone and with a clock time.       *)
RelativeTexts ==
    { Phrase(words, clock) :
        words \in { {"today"}, {"tonight"}, {"tomorrow"},
                    {"tomorrow", "day after tomorrow"} },
        clock \in { None, ClockText(3, -1, "pm"), ClockText(10, -1, "pm"),
                    ClockText(14, 30, "") } }

RelativeBelowThreshold ==
    \A value \in RelativeTexts \cup RawTimes :
       LET resolution == resolve_time_reference(value, 0)
       IN /\ value \in RelativeTexts => resolution.is_relative
          /\ resolution.is_relative =>
                /\ resolution.confidence <= 90
                /\ resolution.confidence < DATE_CONFIDENCE_THRESHOLD
          /\ (resolution.iso # None /\ ~resolution.is_relative) => resolution.confidence = 100

RelativeArgument(tc) ==
    \E f \in TimeFields(tc.name) :
        Present(tc.arguments, f) /\ Resolved(tc.arguments, f).is_relative

ExplicitBeforeLateHour(tc) ==
    \A f \in TimeFields(tc.name) :
        Present(tc.arguments, f) =>
           /\ ~Resolved(tc.arguments, f).is_relative
           /\ Resolved(tc.arguments, f).confidence = 100
           /\ Resolved(tc.arguments, f).iso.hour < LATE_HOUR_THRESHOLD

(* C29, as stated: every relative resolution has confidence at most 0.9,  *)
(* below the threshold, so a tool call with a relative time argument      *)
(* always yields DATE_CONFIRMATION_REQUIRED, and the action proceeds only *)
(* on explicit ISO timestamps before 21:00 local.                         *)
C29_RelativeAsStated ==
    /\ RelativeBelowThreshold
    /\ GatedCall =>
          /\ RelativeArgument(tool_call) => (ConfirmationRequired /\ provider_calls = << >>)
          /\ provider_calls # << >> => ExplicitBeforeLateHour(tool_call)

(* C29: every relative resolution has confidence at most 0.9, below the   *)
(* threshold; a call of an enabled tool with a relative time argument     *)
(* never reaches the provider or the task manager, and yields             *)
(* DATE_CONFIRMATION_REQUIRED when the handler's own required argument is *)
(* given and a validation failure when it is missing; the action proceeds *)
(* only on explicit ISO timestamps before 21:00 local.                    *)
C29_RelativeNeverClears ==
    /\ RelativeBelowThreshold
    /\ GatedCall =>
          /\ RelativeArgument(tool_call) =>
                /\ provider_calls = << >>
                /\ OwnArgumentsGiven(tool_call) => ConfirmationRequired
                /\ ~OwnArgumentsGiven(tool_call) =>
                      (~tool_result.success /\ ~ConfirmationRequired)
          /\ provider_calls # << >> => ExplicitBeforeLateHour(tool_call)

(* "tomorrow at 3 pm" as the start of an event that has its summary.      *)
C29_Witness ==
    /\ GatedCall
    /\ tool_call.name = "create_calendar_event"
    /\ OwnArgumentsGiven(tool_call)
    /\ Present(tool_call.arguments, "start_time")
    /\ tool_call.arguments["start_time"] = Phrase({"tomorrow"}, ClockText(3, -1, "pm"))
    /\ Resolved(tool_call.arguments, "start_time").confidence = 90
    /\ ConfirmationRequired
    /\ provider_calls = << >>

(* ================== advertised and registered tools =================== *)
(* C30: for each combination of the calendar and task switches, after     *)
(* construction each of the ten declared tool names is in exactly one of  *)
(* the handler registry and the disabled-message map, and the tools the   *)
(* completion client advertises are the names of the handler registry, so *)
(* no advertised tool is answered as disabled or unsupported.             *)
DeclaredTools == CALENDAR_TOOLS \cup TASK_TOOLS

Advertised == client_tools(enable_calendar, enable_tasks)

AnsweredDisabledOrUnsupported ==
    /\ ~tool_result.success
    /\ \/ tool_result.error = << DisabledMessage(tool_call.name) >>
       \/ Contains(tool_result.error, "Unsupported tool:")

C30_AdvertisedAreRegistered ==
    LET handlers == DOMAIN tool_handlers(enable_calendar, enable_tasks)
        disabled == DOMAIN disabled_tool_messages(enable_calendar, enable_tasks)
    IN /\ Cardinality(DeclaredTools) = 10
       /\ handlers \cup disabled = DeclaredTools
       /\ handlers \cap disabled = {}
       /\ registry = handlers
       /\ Advertised = registry
       /\ (tool_call # None /\ tool_call.name \in Advertised) =>
             ~AnsweredDisabledOrUnsupported
       /\ (tool_call # None /\ tool_call.name \notin Advertised) =>
             AnsweredDisabledOrUnsupported

(* With the calendar off and the tasks on, an advertised task tool runs   *)
(* as the second tool call.                                               *)
C30_Witness ==
    /\ ~enable_calendar
    /\ enable_tasks
    /\ Advertised = TASK_TOOLS
    /\ tool_call # None
    /\ tool_call.name = "create_task"
    /\ tool_result.success
    /\ tool_runs = 2

====
